---- MODULE Spec2Model ----
(***************************************************************************)
(* A model of the pixel sorting engine of AutumnsGrove/Pixelsorting:       *)
(* the sort keys, the interval strategies, the row sorter (sort_image),    *)
(* the alternate effects and the PixelSorter pipeline.                     *)
(*                                                                         *)
(* Pixels are RGBA 4-tuples of integers in 0..255.  A pixel grid is a      *)
(* sequence of rows, each a sequence of pixels.  Python's 0-based column   *)
(* x is position x + 1 of a TLA+ sequence; boundaries (cut points) keep    *)
(* their Python values.  Sort keys that Python computes as floats are      *)
(* exact rationals [n, d] here (d > 0), compared by cross-multiplication.  *)
(***************************************************************************)
EXTENDS Integers, Sequences, FiniteSets, TLC

VARIABLES
    pixels,          \* the pixel grid handed to the engine (PixelSorter.pixels)
    intervals,       \* one boundary list per row, or None
    args,            \* the parameter dictionary (kwargs of PixelSorter)
    sorting_name,    \* name of the selected sort key
    strategy,        \* name of the selected interval strategy
    aux,             \* pixel data of the auxiliary image a mask strategy loads
    scratch,         \* edge_pixels / file_pixels: the black/white map of the call
    x,               \* random / waves: the running cursor, counted in halves
    pc,              \* position of the running call
    y,               \* sort_image / strategy loop: current row (0-based)
    k,               \* sort_image: index of the next boundary of intervals[y]
    x_min,           \* sort_image: left boundary of the next interval
    row,             \* sort_image: the row reconstructed so far
    sorted_pixels,   \* sort_image: rows finished so far / the result
    error,           \* the exception the running call raised, or None
    config,          \* the configuration dictionary the caller passes in
    image_file,      \* the decoded image the path / url of the call names
    original_image,  \* PixelSorter.original_image
    prepared_image,  \* PixelSorter.prepared_image
    output_image,    \* PixelSorter.output_image
    pixels_to_snap,  \* apply_thanos_snap: the coordinates chosen for erasure
    lookup,          \* the last registry lookup: module, registry, name, outcome
    automaton,       \* generate_elementary_cellular_automata: arguments and locals
    crop,            \* crop_to_reference: arguments and the image returned
    validation,      \* validate_config / SortingConfig.validate: the outcome
    call,            \* the last PixelSorter method called and how it ended
    history,         \* which PixelSorter calls have succeeded so far, and the image
                     \* the stored intervals / sorted pixels were computed from
    sorter_path,     \* PixelSorter._image_path: the image it names, once set
    presets          \* config/presets.py: PRESETS, keys in insertion order

vars == <<pixels, intervals, args, sorting_name, strategy, aux, scratch, x, pc,
          y, k, x_min, row, sorted_pixels, error, config, image_file,
          original_image, prepared_image, output_image, pixels_to_snap, lookup,
          automaton, crop, validation, call, history, sorter_path, presets>>

\* what only the method calls on a PixelSorter and the preset registry assign
others == <<call, history, sorter_path, presets>>

\* the calls that stand apart from the sorter
calls == <<automaton, crop, validation, others>>

\* what no strategy call and no step of sort_image assigns
params == <<args, sorting_name, strategy, aux, config, image_file, original_image,
            prepared_image, output_image, pixels_to_snap, lookup, calls>>

\* Python's None, for a name (an exception, a function), for a list of
\* boundary lists and for a pixel grid
None == "None"
NoIntervals == << <<-1>> >>
NoGrid == << << <<-1>> >> >>

\* An image: its size and its pixel data, data[r][c] the pixel at (c-1, r-1)
Img(w, h, data) == [w |-> w, h |-> h, data |-> data]
NoImage == Img(-1, -1, NoGrid)
NoArgs == [none |-> TRUE]
NoLookup == [module |-> None, registry |-> None, name |-> None, error |-> None,
             func |-> None]
NoAutomaton == [none |-> TRUE]
NoCrop == [none |-> TRUE]
NoValidation == [none |-> TRUE]
NoCall == [method |-> None, outcome |-> None]
NoHistory == [prepared |-> FALSE, generated |-> FALSE, effect |-> FALSE, sorted |-> FALSE,
              intervals |-> NoImage, sorted_pixels |-> NoImage]
NoPresets == <<>>

-----------------------------------------------------------------------------
(* Bounds of the model *)

MaxWidth == 3
MaxHeight == 1
MaxIntervals == 2

\* longest boundary list the random / waves loops record; the loops themselves
\* are not capped, further appends are just not recorded
MaxBoundaries == 2 * MaxWidth + 2

-----------------------------------------------------------------------------
(* Pixels *)

BLACK_PIXEL == <<0, 0, 0, 255>>
WHITE_PIXEL == <<255, 255, 255, 255>>
RED_PIXEL == <<255, 0, 0, 255>>
GRAY_PIXEL == <<128, 128, 128, 255>>
TRANSPARENT == <<0, 0, 0, 0>>

Max2(a, b) == IF a >= b THEN a ELSE b
Min2(a, b) == IF a <= b THEN a ELSE b
Max3(p) == Max2(p[1], Max2(p[2], p[3]))
Min3(p) == Min2(p[1], Min2(p[2], p[3]))

Rat(n, d) == [n |-> n, d |-> d]
RatLess(a, b) == a.n * b.d < b.n * a.d
RatLeq(a, b) == a.n * b.d <= b.n * a.d

-----------------------------------------------------------------------------
(* Sort keys: effects/sorting_functions.py *)

\* rgb_to_hsv(r/255, g/255, b/255)[2] = max(r, g, b) / 255
lightness_sort(p) == Rat(Max3(p), 255)

intensity_sort(p) == Rat(p[1] + p[2] + p[3], 1)

\* colorsys.rgb_to_hsv: 0 for greys, else the sextant formula, (h / 6) % 1
hue_sort(p) ==
    LET maxc == Max3(p)
        minc == Min3(p)
        d == maxc - minc
        h6 == IF p[1] = maxc THEN p[2] - p[3]
              ELSE IF p[2] = maxc THEN 2 * d + (p[3] - p[1])
              ELSE 4 * d + (p[1] - p[2])
    IN  IF minc = maxc THEN Rat(0, 1) ELSE Rat(h6 % (6 * d), 6 * d)

saturation_sort(p) ==
    LET maxc == Max3(p)
        minc == Min3(p)
    IN  IF minc = maxc THEN Rat(0, 1) ELSE Rat(maxc - minc, maxc)

minimum_sort(p) == Rat(Min3(p), 1)
red_sort(p) == Rat(p[1], 1)
green_sort(p) == Rat(p[2], 1)
blue_sort(p) == Rat(p[3], 1)
alpha_sort(p) == Rat(p[4], 1)
maximum_sort(p) == Rat(Max3(p), 1)

SORTING_FUNCTIONS ==
    {"lightness", "intensity", "hue", "saturation", "minimum", "red", "green",
     "blue", "alpha", "maximum"}

\* The registered function, applied: SORTING_FUNCTIONS[name](p)
SortKey(name, p) ==
    CASE name = "lightness" -> lightness_sort(p)
      [] name = "intensity" -> intensity_sort(p)
      [] name = "hue" -> hue_sort(p)
      [] name = "saturation" -> saturation_sort(p)
      [] name = "minimum" -> minimum_sort(p)
      [] name = "red" -> red_sort(p)
      [] name = "green" -> green_sort(p)
      [] name = "blue" -> blue_sort(p)
      [] name = "alpha" -> alpha_sort(p)
      [] name = "maximum" -> maximum_sort(p)

-----------------------------------------------------------------------------
(* The row sorter: core/sorting.py *)

\* Position at which sorted() places e among the already sorted prefix s:
\* after every element whose key is <= key(e) (the sort is stable).
RECURSIVE InsertStable(_, _, _)
InsertStable(s, e, name) ==
    IF s = <<>> THEN <<e>>
    ELSE IF RatLess(SortKey(name, e), SortKey(name, s[Len(s)]))
         THEN Append(InsertStable(SubSeq(s, 1, Len(s) - 1), e, name), s[Len(s)])
         ELSE Append(s, e)

RECURSIVE SortedBy(_, _)
SortedBy(s, name) ==
    IF s = <<>> THEN <<>>
    ELSE InsertStable(SortedBy(SubSeq(s, 1, Len(s) - 1), name), s[Len(s)], name)

\* an ascending sort that takes equal keys in reverse of their original order
sort_interval_unstable(pixel_list, name) ==
    SortedBy([i \in 1..Len(pixel_list) |-> pixel_list[Len(pixel_list) + 1 - i]], name)

sort_interval(pixel_list, name) ==
    IF pixel_list = <<>> THEN <<>> ELSE SortedBy(pixel_list, name)

\* args.get("randomness", 0)
Randomness(a) == IF "randomness" \in DOMAIN a THEN a.randomness ELSE 0

\* the interval taken with its right boundary included
ExtractInterval_inclusive(rowpx, lo, hi) ==
    SubSeq(rowpx, lo + 1, Min2(hi + 1, Len(rowpx)))

\* for x in range(int(x_min), int(x_max)): if x < len(pixels[y]): append
ExtractInterval(rowpx, lo, hi) ==
    SubSeq(rowpx, lo + 1, Min2(hi, Len(rowpx)))

\* a draw equal to the randomness leaves the interval unsorted
ShouldSort_strict(draw, a) == draw > Randomness(a)

\* rand.randint(0, 100) >= args.get("randomness", 0)
ShouldSort(draw, a) == draw >= Randomness(a)

ProcessInterval(interval, draw, a, name) ==
    IF ShouldSort(draw, a) THEN sort_interval(interval, name) ELSE interval

\* the first pixel is appended to every non-empty row
RemainingPixels_always(rowpx, xm) ==
    IF Len(rowpx) > 0 THEN <<rowpx[1]>> ELSE <<>>

\* "Add any remaining pixels": if len(pixels[y]) > 0 and x_min == 0
RemainingPixels(rowpx, xm) ==
    IF Len(rowpx) > 0 /\ xm = 0 THEN <<rowpx[1]>> ELSE <<>>

-----------------------------------------------------------------------------
(* Interval strategies: effects/interval_functions.py *)

\* intervals.append([len(pixels[y])]) for every row
no_intervals(px, a) == [r \in 1..Len(px) |-> <<Len(px[r])>>]

\* the 0-based columns below n whose flag is set, ascending
\* (for x in range(n): if <test>: intervals[y].append(x))
RECURSIVE ColumnsWhere(_, _)
ColumnsWhere(flags, n) ==
    IF n = 0 THEN <<>>
    ELSE IF flags[n] THEN Append(ColumnsWhere(flags, n - 1), n - 1)
         ELSE ColumnsWhere(flags, n - 1)

\* a pixel qualifies only when it is below the bottom and above the upper threshold
OutsideThresholds_both(p, a) ==
    /\ RatLess(lightness_sort(p), a.bottom_threshold)
    /\ RatLess(a.upper_threshold, lightness_sort(p))

\* lightness < bottom_threshold or lightness > upper_threshold
OutsideThresholds(p, a) ==
    \/ RatLess(lightness_sort(p), a.bottom_threshold)
    \/ RatLess(a.upper_threshold, lightness_sort(p))

threshold_intervals(px, a) ==
    [r \in 1..Len(px) |->
        LET w == Len(px[1])
            hit == [c \in 1..w |-> OutsideThresholds(px[r][c], a)]
        IN  Append(ColumnsWhere(hit, w), w)]

\* append_black_white_pixel: white below the threshold, black otherwise
BlackWhite(p, threshold) ==
    IF RatLess(lightness_sort(p), threshold) THEN WHITE_PIXEL ELSE BLACK_PIXEL

ThresholdMap(data, threshold) ==
    [r \in 1..Len(data) |-> [c \in 1..Len(data[r]) |-> BlackWhite(data[r][c], threshold)]]

\* range(len(pixels) - 1, 1, -1) and range(len(pixels[0]) - 1, 1, -1) stop here
SweepStop == 1

\* "Clean up edges" in one row, visiting column c, then c - 1, ... down to 2
\* the sweep of a row stopped at its first collapse
RECURSIVE CleanUpRow_break(_, _)
CleanUpRow_break(bwrow, c) ==
    IF c <= SweepStop THEN bwrow
    ELSE IF bwrow[c + 1] = BLACK_PIXEL /\ bwrow[c] = BLACK_PIXEL
         THEN [bwrow EXCEPT ![c + 1] = WHITE_PIXEL]
         ELSE CleanUpRow_break(bwrow, c - 1)

RECURSIVE CleanUpRow(_, _)
CleanUpRow(bwrow, c) ==
    IF c <= SweepStop THEN bwrow
    ELSE CleanUpRow(IF bwrow[c + 1] = BLACK_PIXEL /\ bwrow[c] = BLACK_PIXEL
                    THEN [bwrow EXCEPT ![c + 1] = WHITE_PIXEL]
                    ELSE bwrow,
                    c - 1)

CleanUp(bw, w) ==
    [r \in 1..Len(bw) |-> IF r - 1 > SweepStop THEN CleanUpRow(bw[r], w - 1) ELSE bw[r]]

IsBlack(p) == p = BLACK_PIXEL

\* the columns still black, without the closing boundary
DefineIntervals_open(bw, w) ==
    [r \in 1..Len(bw) |-> ColumnsWhere([c \in 1..w |-> IsBlack(bw[r][c])], w)]

\* "Define intervals": the columns still black, then the width
DefineIntervals(bw, w) ==
    [r \in 1..Len(bw) |->
        Append(ColumnsWhere([c \in 1..w |-> IsBlack(bw[r][c])], w), w)]

\* The result of a strategy call: the exception it raised (or None), the
\* boundary lists, the black/white map it worked on, and the caller's grid as
\* the call leaves it.
StrategyResult(err, iv, bw, px) ==
    [error |-> err, intervals |-> iv, scratch |-> bw, pixels |-> px]

\* the black/white map is built in, and swept on, the caller's grid
edge_intervals_inplace(px, filter_pixels, a) ==
    IF Len(px) = 0 THEN StrategyResult("IndexError", NoIntervals, NoGrid, px)
    ELSE LET cleaned == CleanUp(ThresholdMap(filter_pixels, a.bottom_threshold), Len(px[1]))
         IN  StrategyResult(None, DefineIntervals(cleaned, Len(px[1])), cleaned, cleaned)

\* filter_pixels: the pixel array of the edge-filtered, rotated source image
edge_intervals(px, filter_pixels, a) ==
    IF Len(px) = 0 THEN StrategyResult("IndexError", NoIntervals, NoGrid, px)
    ELSE IF "bottom_threshold" \notin DOMAIN a
    THEN StrategyResult("KeyError", NoIntervals, NoGrid, px)
    ELSE LET edge_pixels == ThresholdMap(filter_pixels, a.bottom_threshold)
             cleaned == CleanUp(edge_pixels, Len(px[1]))
         IN  StrategyResult(None, DefineIntervals(cleaned, Len(px[1])), cleaned, px)

\* file_pixels: the pixel array of the resized cellular automaton image (RGB)
file_mask_intervals(px, file_pixels, a) ==
    IF Len(px) = 0 THEN StrategyResult("IndexError", NoIntervals, NoGrid, px)
    ELSE LET cleaned == CleanUp(file_pixels, Len(px[1]))
         IN  StrategyResult(None, DefineIntervals(cleaned, Len(px[1])), cleaned, px)

DefaultBottomThreshold == Rat(25, 100)

\* filter_pixels: the automaton image rotated, resized, edge-filtered, as RGBA
file_edges_intervals(px, filter_pixels, a) ==
    IF Len(px) = 0 THEN StrategyResult("IndexError", NoIntervals, NoGrid, px)
    ELSE LET threshold == IF "bottom_threshold" \in DOMAIN a
                          THEN a.bottom_threshold ELSE DefaultBottomThreshold
             edge_pixels == ThresholdMap(filter_pixels, threshold)
             cleaned == CleanUp(edge_pixels, Len(px[1]))
         IN  StrategyResult(None, DefineIntervals(cleaned, Len(px[1])), cleaned, px)

INTERVAL_FUNCTIONS ==
    {"random", "threshold", "edges", "waves", "none", "file", "file-edges", "snap",
     "shuffle-total", "shuffle-axis"}

-----------------------------------------------------------------------------
(* Input sets *)

SortPalette == {RED_PIXEL, GRAY_PIXEL, BLACK_PIXEL}
RandomnessValues == {0, 50, 100}
RandomnessEnds == {0, 100}
\* outcomes of rand.randint(0, 100): both ends, and both sides of 50
Draws == {0, 49, 50, 100}

\* the locals of the loops before their call
Locals0 == y = 0 /\ k = 0 /\ x_min = 0 /\ row = <<>> /\ x = 0

\* none of the stand-alone calls is involved
NoOthers ==
    /\ call = NoCall
    /\ history = NoHistory
    /\ sorter_path = NoImage
    /\ presets = NoPresets

NoCalls ==
    /\ automaton = NoAutomaton
    /\ crop = NoCrop
    /\ validation = NoValidation
    /\ NoOthers

\* no PixelSorter, no lookup and no snap is involved
NoPipeline ==
    /\ config = NoArgs
    /\ image_file = NoImage
    /\ original_image = NoImage
    /\ prepared_image = NoImage
    /\ output_image = NoImage
    /\ pixels_to_snap = {}
    /\ NoCalls
    /\ lookup = NoLookup

RowsOver(palette, w) == [1..w -> palette]
GridsOver(palette, w, h) == [1..h -> RowsOver(palette, w)]

SortArgs == {[randomness |-> r] : r \in RandomnessEnds}

\* a test image whose columns are all different: a red ramp, brightest first
GradientPixel(col) == <<250 - 50 * col, 0, 0, 255>>
GradientGrid(w, h) == [r \in 1..h |-> [c \in 1..w |-> GradientPixel(c - 1)]]

\* the non-decreasing boundary lists over 0..w with at most n boundaries
IsNonDecreasing(s) == \A i \in 1..(Len(s) - 1) : s[i] <= s[i + 1]
BoundaryLists(w, n) ==
    UNION {{s \in [1..m -> 0..w] : IsNonDecreasing(s)} : m \in 0..n}

-----------------------------------------------------------------------------
(* sort_image as a loop over rows and, within a row, over its boundaries *)

sort_image_call ==
    /\ pc = "intervals_ready"
    /\ sorted_pixels' = <<>>
    /\ IF Len(pixels) = 0
       THEN /\ pc' = "sorted"
            /\ UNCHANGED <<y, k, x_min, row, error>>
       ELSE IF Len(intervals) < 1
       THEN /\ pc' = "error"
            /\ error' = "IndexError"
            /\ UNCHANGED <<y, k, x_min, row>>
       ELSE /\ pc' = "sort_row"
            /\ y' = 0
            /\ k' = 1
            /\ x_min' = 0
            /\ row' = <<>>
            /\ UNCHANGED error
    /\ UNCHANGED <<pixels, intervals, params, scratch, x>>

\* one iteration of "for x_max in intervals[y]", with its random draw
sort_image_interval(draw) ==
    /\ pc = "sort_row"
    /\ k <= Len(intervals[y + 1])
    /\ LET x_max == intervals[y + 1][k]
           interval == ExtractInterval(pixels[y + 1], x_min, x_max)
       IN  /\ row' = row \o ProcessInterval(interval, draw, args, sorting_name)
           /\ x_min' = x_max
    /\ k' = k + 1
    /\ UNCHANGED <<pixels, intervals, params, scratch, x, pc, y, sorted_pixels,
                   error>>

\* the boundaries of row y are used up: finish the row, go to the next one
sort_image_row_end ==
    /\ pc = "sort_row"
    /\ k > Len(intervals[y + 1])
    /\ sorted_pixels' = Append(sorted_pixels, row \o RemainingPixels(pixels[y + 1], x_min))
    /\ IF y + 1 >= Len(pixels)
       THEN /\ pc' = "sorted"
            /\ UNCHANGED <<y, k, x_min, row, error>>
       ELSE IF Len(intervals) < y + 2
       THEN /\ pc' = "error"
            /\ error' = "IndexError"
            /\ UNCHANGED <<y, k, x_min, row>>
       ELSE /\ y' = y + 1
            /\ k' = 1
            /\ x_min' = 0
            /\ row' = <<>>
            /\ UNCHANGED <<pc, error>>
    /\ UNCHANGED <<pixels, intervals, params, scratch, x>>

-----------------------------------------------------------------------------
(* SpecSort: the `none` strategy followed by sort_image *)

call_no_intervals ==
    /\ pc = "pixels_ready"
    /\ strategy = "none"
    /\ intervals' = no_intervals(pixels, args)
    /\ pc' = "intervals_ready"
    /\ UNCHANGED <<pixels, params, scratch, x, y, k, x_min, row, sorted_pixels,
                   error>>

InitSort ==
    /\ \E w \in 0..MaxWidth, h \in 0..MaxHeight : pixels \in GridsOver(SortPalette, w, h)
    /\ intervals = NoIntervals
    /\ args \in SortArgs
    /\ sorting_name \in SORTING_FUNCTIONS
    /\ strategy = "none"
    /\ pc = "pixels_ready"
    /\ Locals0
    /\ NoPipeline
    /\ sorted_pixels = NoGrid
    /\ error = None
    /\ aux = NoGrid /\ scratch = NoGrid

NextSort ==
    \/ call_no_intervals
    \/ sort_image_call
    \/ \E draw \in Draws : sort_image_interval(draw)
    \/ sort_image_row_end

SpecSort == InitSort /\ [][NextSort]_vars

-----------------------------------------------------------------------------
(* SpecGiven: sort_image called with boundary lists the caller supplies,   *)
(* as tests/test_core_sorting.py does (full, partial, empty, too few rows) *)

GivenArgs == {[randomness |-> r] : r \in RandomnessValues}
GivenKeys == {"red", "alpha"}

InitGiven ==
    /\ \E w \in 0..MaxWidth, h \in 0..MaxHeight :
          /\ pixels = GradientGrid(w, h)
          /\ \E n \in 0..h : intervals \in [1..n -> BoundaryLists(w, MaxIntervals)]
    /\ args \in GivenArgs
    /\ sorting_name \in GivenKeys
    /\ strategy = "given"
    /\ pc = "intervals_ready"
    /\ Locals0
    /\ NoPipeline
    /\ sorted_pixels = NoGrid
    /\ error = None
    /\ aux = NoGrid /\ scratch = NoGrid

NextGiven ==
    \/ sort_image_call
    \/ \E draw \in Draws : sort_image_interval(draw)
    \/ sort_image_row_end

SpecGiven == InitGiven /\ [][NextGiven]_vars

-----------------------------------------------------------------------------
(* The interval strategies as calls.  none, threshold, edges, file and      *)
(* file-edges are loops without inputs and run as one step; random and     *)
(* waves draw a random number per iteration and run one iteration a step.  *)

StrategyReturn(res) ==
    /\ pixels' = res.pixels
    /\ intervals' = res.intervals
    /\ scratch' = res.scratch
    /\ IF res.error = None
       THEN pc' = "intervals_ready" /\ UNCHANGED error
       ELSE pc' = "error" /\ error' = res.error
    /\ UNCHANGED <<params, x, y, k, x_min, row, sorted_pixels>>

call_threshold_intervals ==
    /\ pc = "pixels_ready"
    /\ strategy = "threshold"
    /\ StrategyReturn(StrategyResult(None, threshold_intervals(pixels, args), NoGrid, pixels))

call_edge_intervals ==
    /\ pc = "pixels_ready"
    /\ strategy = "edges"
    /\ StrategyReturn(edge_intervals(pixels, aux, args))

call_file_mask_intervals ==
    /\ pc = "pixels_ready"
    /\ strategy = "file"
    /\ StrategyReturn(file_mask_intervals(pixels, aux, args))

call_file_edges_intervals ==
    /\ pc = "pixels_ready"
    /\ strategy = "file-edges"
    /\ StrategyReturn(file_edges_intervals(pixels, aux, args))

\* intervals[y].append(b), recorded up to MaxBoundaries entries
AppendBoundary(iv, r, b) ==
    IF Len(iv[r]) < MaxBoundaries THEN [iv EXCEPT ![r] = Append(@, b)] ELSE iv

\* The loop body shared by random_intervals and wave_intervals, the cursor
\* nx = x + width in halves, b the boundary to append if nx is within width:
\*     if x > len(pixels[0]): append(len(pixels[0])); break
\*     else: append(b)
LoopIteration(nx, b) ==
    IF nx > 2 * Len(pixels[1])
    THEN LET closed == AppendBoundary(intervals, y + 1, Len(pixels[1]))
         IN  IF y + 1 < Len(pixels)
             THEN /\ intervals' = Append(closed, <<>>)
                  /\ y' = y + 1
                  /\ x' = 0
                  /\ UNCHANGED pc
             ELSE /\ intervals' = closed
                  /\ pc' = "intervals_ready"
                  /\ UNCHANGED <<x, y>>
    ELSE /\ intervals' = AppendBoundary(intervals, y + 1, b)
         /\ x' = nx
         /\ UNCHANGED <<pc, y>>

LoopCall(name, loop) ==
    /\ pc = "pixels_ready"
    /\ strategy = name
    /\ IF Len(pixels) = 0
       THEN /\ intervals' = <<>>
            /\ pc' = "intervals_ready"
            /\ UNCHANGED <<x, y>>
       ELSE /\ intervals' = << <<>> >>
            /\ y' = 0
            /\ x' = 0
            /\ pc' = loop
    /\ UNCHANGED <<pixels, params, scratch, k, x_min, row, sorted_pixels, error>>

random_intervals_call ==
    /\ strategy = "random"
    /\ LoopCall("random", "random_loop")

\* random_width: clength * (1 - rand.random()), in halves; f / 2 is 1 - U
random_width(characteristic_length, f) == characteristic_length * f

\* one iteration of "while True" in random_intervals; appends int(x)
random_intervals_step(f) ==
    /\ pc = "random_loop"
    /\ LET nx == x + random_width(args.clength, f)
       IN  LoopIteration(nx, nx \div 2)
    /\ UNCHANGED <<pixels, params, scratch, k, x_min, row, sorted_pixels, error>>

wave_intervals_call ==
    /\ strategy = "waves"
    /\ LoopCall("waves", "wave_loop")

\* width = clength + rand.randint(0, 10), in halves
wave_width(characteristic_length, d) == 2 * (characteristic_length + d)

\* one iteration of "while True" in wave_intervals; appends x
wave_intervals_step(d) ==
    /\ pc = "wave_loop"
    /\ LET nx == x + wave_width(args.clength, d)
       IN  LoopIteration(nx, nx \div 2)
    /\ UNCHANGED <<pixels, params, scratch, k, x_min, row, sorted_pixels, error>>

\* 1 - rand.random() lies in (0, 1]: the outcomes 1/2 and 1, in halves
RandomFractions == {1, 2}
\* outcomes of rand.randint(0, 10)
WaveDraws == {0, 1, 10}
ClengthValues == {0, 1, 2}

-----------------------------------------------------------------------------
(* SpecLoops: the accumulation loops of random and waves, with fair draws *)

InitLoops ==
    /\ \E w \in 0..MaxWidth, h \in 0..MaxHeight : pixels = GradientGrid(w, h)
    /\ strategy \in {"random", "waves"}
    /\ args \in {[clength |-> c] : c \in ClengthValues}
    /\ sorting_name = "lightness"
    /\ pc = "pixels_ready"
    /\ intervals = NoIntervals
    /\ Locals0
    /\ NoPipeline
    /\ sorted_pixels = NoGrid
    /\ error = None
    /\ aux = NoGrid /\ scratch = NoGrid

NextLoops ==
    \/ random_intervals_call
    \/ \E f \in RandomFractions : random_intervals_step(f)
    \/ wave_intervals_call
    \/ \E d \in WaveDraws : wave_intervals_step(d)

\* Every call runs on (the engine is one synchronous call), and every outcome
\* of a draw that stays possible is eventually drawn.
FairLoops ==
    /\ WF_vars(NextLoops)
    /\ \A f \in RandomFractions : WF_vars(random_intervals_step(f))
    /\ \A d \in WaveDraws : WF_vars(wave_intervals_step(d))

SpecLoops == InitLoops /\ [][NextLoops]_vars /\ FairLoops

-----------------------------------------------------------------------------
(* SpecIntervals: every interval-returning strategy, followed by sort_image *)

\* rows a mask strategy is run on: enough for the clean-up sweep to reach one
MaskHeight == SweepStop + 2

\* black (lightness 0), mid grey, white (lightness 1)
ThresholdPalette == {BLACK_PIXEL, GRAY_PIXEL, WHITE_PIXEL}
\* pixels of an edge-filtered RGBA image: no edge, edge
FilterPalette == {BLACK_PIXEL, WHITE_PIXEL}
\* pixels of the automaton's RGB image (special_effects.py: false_pixel, true_pixel)
AutomatonPalette == {<<0, 0, 0>>, <<255, 255, 255>>}

\* the default thresholds; every positive clength for the strategies that
\* read it, clength 1 for the others; the mask strategies, whose auxiliary
\* image varies, are sorted with the randomness that lets a draw go both ways
IntervalArgs(name) ==
    {[bottom_threshold |-> Rat(25, 100), upper_threshold |-> Rat(80, 100),
      clength |-> c, randomness |-> r] :
        c \in IF name \in {"random", "waves"} THEN ClengthValues \ {0} ELSE {1},
        r \in IF name \in {"edges", "file", "file-edges"} THEN {50} ELSE RandomnessValues}

InitIntervals ==
    /\ \/ /\ strategy \in {"none", "random", "waves"}
          /\ \E w \in 0..MaxWidth, h \in 0..MaxHeight : pixels = GradientGrid(w, h)
          /\ aux = NoGrid
       \/ /\ strategy = "threshold"
          /\ \E w \in 0..MaxWidth, h \in 0..MaxHeight :
                pixels \in GridsOver(ThresholdPalette, w, h)
          /\ aux = NoGrid
       \/ /\ strategy \in {"edges", "file-edges"}
          /\ \E w \in 0..MaxWidth, h \in 0..MaskHeight :
                /\ pixels = GradientGrid(w, h)
                /\ aux \in GridsOver(FilterPalette, w, h)
       \/ /\ strategy = "file"
          /\ \E w \in 0..MaxWidth, h \in 0..MaskHeight :
                /\ pixels = GradientGrid(w, h)
                /\ aux \in GridsOver(AutomatonPalette, w, h)
    /\ args \in IntervalArgs(strategy)
    /\ sorting_name = "lightness"
    /\ pc = "pixels_ready"
    /\ intervals = NoIntervals
    /\ Locals0
    /\ NoPipeline
    /\ sorted_pixels = NoGrid
    /\ error = None
    /\ scratch = NoGrid

NextIntervals ==
    \/ call_no_intervals
    \/ call_threshold_intervals
    \/ call_edge_intervals
    \/ call_file_mask_intervals
    \/ call_file_edges_intervals
    \/ random_intervals_call
    \/ \E f \in RandomFractions : random_intervals_step(f)
    \/ wave_intervals_call
    \/ \E d \in WaveDraws : wave_intervals_step(d)
    \/ sort_image_call
    \/ \E draw \in Draws : sort_image_interval(draw)
    \/ sort_image_row_end

SpecIntervals == InitIntervals /\ [][NextIntervals]_vars

-----------------------------------------------------------------------------
(* SpecSnap: the snap effect, effects/special_effects.py *)

\* Python's round(n / 2, 0): the nearest integer, a tie going to the even one
RoundHalf(n) ==
    LET q == n \div 2
    IN  IF n % 2 = 0 THEN q
        ELSE IF q % 2 = 0 THEN q ELSE q + 1

snapped_count(total_pixels) == RoundHalf(total_pixels)

\* mgrid[:nx, :ny]: every coordinate (x, y) of the image
Coordinates(nx, ny) == (0..(nx - 1)) \X (0..(ny - 1))

\* choice(total, snapped_count, replace=False): the draws without replacement
SnapChoices(nx, ny) ==
    {chosen \in SUBSET Coordinates(nx, ny) :
        Cardinality(chosen) = snapped_count(nx * ny)}

\* pixels_snap[y][x] = [0, 0, 0, 0] for every chosen (x, y)
apply_thanos_snap(image, chosen) ==
    Img(image.w, image.h,
        [r \in 1..image.h |-> [c \in 1..image.w |->
            IF <<c - 1, r - 1>> \in chosen THEN TRANSPARENT
            ELSE image.data[r][c]]])

\* Image.new("RGBA", (width, height)) and the putpixel loop of a grid
ImageFromPixels(px, width, height) ==
    Img(width, height,
        [r \in 1..height |-> [c \in 1..width |->
            IF r <= Len(px) /\ c <= Len(px[r]) THEN px[r][c] ELSE TRANSPARENT]])

image_to_pixel_array(width, height, image) ==
    [r \in 1..height |-> [c \in 1..width |-> image.data[r][c]]]

snap_intervals(px, chosen) ==
    LET height == Len(px)
        width  == IF height > 0 THEN Len(px[1]) ELSE 0
    IN  IF height = 0 \/ width = 0 THEN px
        ELSE image_to_pixel_array(width, height,
                 apply_thanos_snap(ImageFromPixels(px, width, height), chosen))

\* the effect returns the finished grid, which generate_intervals keeps as
\* sorted_pixels; there are no intervals
call_snap_intervals ==
    /\ pc = "pixels_ready"
    /\ strategy = "snap"
    /\ LET height == Len(pixels)
           width  == IF height > 0 THEN Len(pixels[1]) ELSE 0
       IN  \E chosen \in SnapChoices(width, height) :
               /\ pixels_to_snap' = chosen
               /\ sorted_pixels' = snap_intervals(pixels, chosen)
    /\ pc' = "effect_ready"
    /\ UNCHANGED <<calls, pixels, intervals, args, sorting_name, strategy, aux, scratch,
                   x, y, k, x_min, row, error, config, image_file, original_image,
                   prepared_image, output_image, lookup>>

\* opaque red, opaque grey and an already transparent pixel
SnapPalette == {RED_PIXEL, GRAY_PIXEL, TRANSPARENT}

InitSnap ==
    /\ \E w \in 0..MaxWidth, h \in 0..MaxHeight : pixels \in GridsOver(SnapPalette, w, h)
    /\ strategy = "snap"
    /\ args = [clength |-> 50]
    /\ sorting_name = "lightness"
    /\ aux = NoGrid
    /\ pc = "pixels_ready"
    /\ intervals = NoIntervals
    /\ Locals0
    /\ NoPipeline
    /\ sorted_pixels = NoGrid
    /\ error = None
    /\ scratch = NoGrid

NextSnap == call_snap_intervals

SpecSnap == InitSnap /\ [][NextSnap]_vars

-----------------------------------------------------------------------------
(* SpecLookup: the registries and their lookups.  A function is its name.  *)

\* effects/interval_functions.py: the registered function of each name
IntervalRegistry ==
    [name \in INTERVAL_FUNCTIONS |->
        CASE name = "random"        -> "random_intervals"
          [] name = "threshold"     -> "threshold_intervals"
          [] name = "edges"         -> "edge_intervals"
          [] name = "waves"         -> "wave_intervals"
          [] name = "none"          -> "no_intervals"
          [] name = "file"          -> "file_mask_intervals"
          [] name = "file-edges"    -> "file_edges_intervals"
          [] name = "snap"          -> "snap_intervals"
          [] name = "shuffle-total" -> "shuffle_total_intervals"
          [] name = "shuffle-axis"  -> "shuffle_axis_intervals"]

\* effects/sorting_functions.py: the registered key of each name
SortingRegistry == [name \in SORTING_FUNCTIONS |-> name \o "_sort"]

Raised(exception) == [error |-> exception, func |-> None]
Returned(func) == [error |-> None, func |-> func]

raise_function_not_found(function_type, function_name) ==
    Raised("FunctionNotFoundError")

get_interval_function(name) ==
    IF name \notin DOMAIN IntervalRegistry
    THEN raise_function_not_found("interval", name)
    ELSE Returned(IntervalRegistry[name])

get_sorting_function(name) ==
    IF name \notin DOMAIN SortingRegistry
    THEN raise_function_not_found("sorting", name)
    ELSE Returned(SortingRegistry[name])

\* dict.get(key, default)
DictGet(d, key, default) == IF key \in DOMAIN d THEN d[key] ELSE default

\* src/pixelsort.py, the script: its own tables and lookups
ScriptIntervalFunctions ==
    [name \in {"random", "threshold", "edges", "waves", "snap", "file",
               "file-edges", "shuffle-total", "shuffle-axis", "none"} |->
        CASE name = "random"        -> "random"
          [] name = "threshold"     -> "threshold"
          [] name = "edges"         -> "edge"
          [] name = "waves"         -> "waves"
          [] name = "snap"          -> "snap_sort"
          [] name = "file"          -> "file_mask"
          [] name = "file-edges"    -> "file_edges"
          [] name = "shuffle-total" -> "shuffle_total"
          [] name = "shuffle-axis"  -> "shuffled_axis"
          [] name = "none"          -> "none"]

ScriptSortingFunctions ==
    [name \in {"lightness", "hue", "intensity", "minimum", "saturation"} |-> name]

script_get_interval_function(function_name) ==
    Returned(DictGet(ScriptIntervalFunctions, function_name, "random"))

script_get_sorting_function(function_name) ==
    Returned(DictGet(ScriptSortingFunctions, function_name, "lightness"))

\* the table a lookup of the given module and kind consults
RegistryOf(module, registry) ==
    CASE module = "package" /\ registry = "interval" -> IntervalRegistry
      [] module = "package" /\ registry = "sorting"  -> SortingRegistry
      [] module = "script"  /\ registry = "interval" -> ScriptIntervalFunctions
      [] module = "script"  /\ registry = "sorting"  -> ScriptSortingFunctions

LookupCall(module, registry, name, res) ==
    /\ lookup' = [module |-> module, registry |-> registry, name |-> name,
                  error |-> res.error, func |-> res.func]
    /\ error' = res.error
    /\ pc' = IF res.error = None THEN "looked_up" ELSE "error"
    /\ UNCHANGED <<calls, pixels, intervals, args, sorting_name, strategy, aux, scratch,
                   x, y, k, x_min, row, sorted_pixels, config, image_file,
                   original_image, prepared_image, output_image, pixels_to_snap>>

call_get_interval_function ==
    /\ pc = "new"
    /\ LookupCall("package", "interval", config.int_function,
               get_interval_function(config.int_function))

call_get_sorting_function ==
    /\ pc = "new"
    /\ LookupCall("package", "sorting", config.sorting_function,
               get_sorting_function(config.sorting_function))

call_script_get_interval_function ==
    /\ pc = "new"
    /\ LookupCall("script", "interval", config.int_function,
               script_get_interval_function(config.int_function))

call_script_get_sorting_function ==
    /\ pc = "new"
    /\ LookupCall("script", "sorting", config.sorting_function,
               script_get_sorting_function(config.sorting_function))

\* every registered name of either kind, a misspelt one and the empty one
LookupNames == INTERVAL_FUNCTIONS \cup SORTING_FUNCTIONS \cup {"bogus", ""}

InitLookup ==
    /\ config \in [int_function : LookupNames, sorting_function : LookupNames]
    /\ pc = "new"
    /\ lookup = NoLookup
    /\ pixels = NoGrid
    /\ strategy = None
    /\ sorting_name = None
    /\ args = NoArgs
    /\ aux = NoGrid
    /\ intervals = NoIntervals
    /\ Locals0
    /\ image_file = NoImage
    /\ original_image = NoImage
    /\ prepared_image = NoImage
    /\ output_image = NoImage
    /\ pixels_to_snap = {}
    /\ NoCalls
    /\ sorted_pixels = NoGrid
    /\ error = None
    /\ scratch = NoGrid

NextLookup ==
    \/ call_get_interval_function
    \/ call_get_sorting_function
    \/ call_script_get_interval_function
    \/ call_script_get_sorting_function

SpecLookup == InitLookup /\ [][NextLookup]_vars

-----------------------------------------------------------------------------
(* SpecPipeline: PixelSorter and PixelSortProcessor, core/processor.py.     *)
(* The image library is outside the program: a rotation by a multiple of   *)
(* 90 degrees is the exact transpose, any other rotation returns an image  *)
(* of some size the library picks, and the pixel content of a resampled    *)
(* image is a nearest-neighbour stand-in.                                   *)

\* the largest width and height of an input image
MaxImage == 2
\* the largest width and height the library returns for a rotated image
MaxRotated == MaxImage + 1

Rotate180(image) ==
    Img(image.w, image.h,
        [r \in 1..image.h |-> [c \in 1..image.w |->
            image.data[image.h + 1 - r][image.w + 1 - c]]])

\* counter-clockwise quarter turn
Rotate90(image) ==
    Img(image.h, image.w,
        [r \in 1..image.w |-> [c \in 1..image.h |->
            image.data[c][image.w + 1 - r]]])

\* clockwise quarter turn
Rotate270(image) ==
    Img(image.h, image.w,
        [r \in 1..image.w |-> [c \in 1..image.h |->
            image.data[image.h + 1 - c][r]]])

Resample(image, nw, nh) ==
    Img(nw, nh,
        [r \in 1..nh |-> [c \in 1..nw |->
            image.data[((r - 1) * image.h) \div nh + 1][((c - 1) * image.w) \div nw + 1]]])

\* Image.rotate(angle, expand=True); <<nw, nh>> is the size the library
\* gives the result when the angle is no multiple of 90
Rotate(image, angle, nw, nh) ==
    LET a == angle % 360
    IN  CASE a = 0   -> image
          [] a = 180 -> Rotate180(image)
          [] a = 90  -> Rotate90(image)
          [] a = 270 -> Rotate270(image)
          [] OTHER   -> Resample(image, nw, nh)

\* Image.crop((left, top, right, bottom))
Crop(image, box) ==
    LET left == box[1]
        top  == box[2]
    IN  Img(box[3] - left, box[4] - top,
            [r \in 1..(box[4] - top) |-> [c \in 1..(box[3] - left) |->
                IF top + r \in 1..image.h /\ left + c \in 1..image.w
                THEN image.data[top + r][left + c] ELSE TRANSPARENT]])

\* Image.resize(target_size, Image.LANCZOS)
Resize(image, target_width, target_height) ==
    Resample(image, target_width, target_height)

CenterCropBox_full(img_width, img_height, target_width, target_height) ==
    LET left == (img_width - target_width) \div 2
        top  == (img_height - target_height) \div 2
    IN  <<left, top, img_width, img_height>>

\* reconstruct_image: the centre crop coordinates
CenterCropBox(img_width, img_height, target_width, target_height) ==
    LET left   == (img_width - target_width) \div 2
        top    == (img_height - target_height) \div 2
        right  == left + target_width
        bottom == top + target_height
    IN  <<left, top, right, bottom>>

\* reconstruct_image: crop the rotated image to the target size, or resize it
CropToTarget(image, target_width, target_height) ==
    IF image.w = target_width /\ image.h = target_height THEN image
    ELSE IF image.w >= target_width /\ image.h >= target_height
    THEN Crop(image, CenterCropBox(image.w, image.h, target_width, target_height))
    ELSE Resize(image, target_width, target_height)

\* reconstruct_image after its guard
ReconstructedImage(sorted, prepared, original, a, nw, nh) ==
    LET placed == ImageFromPixels(sorted, prepared.w, prepared.h)
        angle  == DictGet(a, "angle", 0)
    IN  IF angle # 0
        THEN CropToTarget(Rotate(placed, 360 - angle, nw, nh), original.w, original.h)
        ELSE placed

\* the outcome of a validation: True returned, or ValueError with its message
\* (and, in config/settings.py, the offending value the message ends with)
Valid == [returned |-> "True", error |-> None, message |-> None, got |-> <<>>]
Invalid(message, got) ==
    [returned |-> None, error |-> "ValueError", message |-> message, got |-> got]

\* thresholds may be equal
validate_config_lenient(c) ==
    LET zero == Rat(0, 1)
        one  == Rat(1, 1)
    IN  IF ~(RatLeq(zero, c.bottom_threshold) /\ RatLeq(c.bottom_threshold, one))
        THEN Invalid("bottom_threshold must be between 0.0 and 1.0", <<>>)
        ELSE IF ~(RatLeq(zero, c.upper_threshold) /\ RatLeq(c.upper_threshold, one))
        THEN Invalid("upper_threshold must be between 0.0 and 1.0", <<>>)
        ELSE IF RatLess(c.upper_threshold, c.bottom_threshold)
        THEN Invalid("bottom_threshold must be less than upper_threshold", <<>>)
        ELSE IF c.clength < 0
        THEN Invalid("clength must be non-negative", <<>>)
        ELSE IF ~(0 <= c.randomness /\ c.randomness <= 100)
        THEN Invalid("randomness must be between 0.0 and 100.0", <<>>)
        ELSE IF ~(0 <= c.angle /\ c.angle < 360)
        THEN Invalid("angle must be between 0.0 and 360.0", <<>>)
        ELSE Valid

\* utils/config.py: validate_config, which no pipeline entry calls
validate_config(c) ==
    LET zero == Rat(0, 1)
        one  == Rat(1, 1)
    IN  IF ~(RatLeq(zero, c.bottom_threshold) /\ RatLeq(c.bottom_threshold, one))
        THEN Invalid("bottom_threshold must be between 0.0 and 1.0", <<>>)
        ELSE IF ~(RatLeq(zero, c.upper_threshold) /\ RatLeq(c.upper_threshold, one))
        THEN Invalid("upper_threshold must be between 0.0 and 1.0", <<>>)
        ELSE IF RatLeq(c.upper_threshold, c.bottom_threshold)
        THEN Invalid("bottom_threshold must be less than upper_threshold", <<>>)
        ELSE IF c.clength < 0
        THEN Invalid("clength must be non-negative", <<>>)
        ELSE IF ~(0 <= c.randomness /\ c.randomness <= 100)
        THEN Invalid("randomness must be between 0.0 and 100.0", <<>>)
        ELSE IF ~(0 <= c.angle /\ c.angle < 360)
        THEN Invalid("angle must be between 0.0 and 360.0", <<>>)
        ELSE Valid

\* config/settings.py: SortingConfig.validate; its messages end with the value
SortingConfig_validate(c) ==
    LET zero == Rat(0, 1)
        one  == Rat(1, 1)
    IN  IF ~(RatLeq(zero, c.bottom_threshold) /\ RatLeq(c.bottom_threshold, one))
        THEN Invalid("bottom_threshold must be between 0.0 and 1.0", <<c.bottom_threshold>>)
        ELSE IF ~(RatLeq(zero, c.upper_threshold) /\ RatLeq(c.upper_threshold, one))
        THEN Invalid("upper_threshold must be between 0.0 and 1.0", <<c.upper_threshold>>)
        ELSE IF RatLeq(c.upper_threshold, c.bottom_threshold)
        THEN Invalid("bottom_threshold must be less than upper_threshold", <<>>)
        ELSE IF c.clength < 0
        THEN Invalid("clength must be non-negative", <<c.clength>>)
        ELSE IF ~(0 <= c.randomness /\ c.randomness <= 100)
        THEN Invalid("randomness must be between 0.0 and 100.0", <<c.randomness>>)
        ELSE IF ~(0 <= c.angle /\ c.angle < 360)
        THEN Invalid("angle must be between 0.0 and 360.0", <<c.angle>>)
        ELSE Valid

\* PixelSorter.__init__: both lookups, then the keyword arguments are kept
PixelSorter_init(interval_function, sorting_function, kwargs) ==
    LET found_interval == get_interval_function(interval_function)
        found_sorting  == get_sorting_function(sorting_function)
    IN  IF found_interval.error # None
        THEN /\ pc' = "error"
             /\ error' = found_interval.error
             /\ lookup' = [module |-> "package", registry |-> "interval",
                           name |-> interval_function,
                           error |-> found_interval.error, func |-> None]
             /\ UNCHANGED <<strategy, sorting_name, args>>
        ELSE IF found_sorting.error # None
        THEN /\ pc' = "error"
             /\ error' = found_sorting.error
             /\ lookup' = [module |-> "package", registry |-> "sorting",
                           name |-> sorting_function,
                           error |-> found_sorting.error, func |-> None]
             /\ UNCHANGED <<strategy, sorting_name, args>>
        ELSE /\ pc' = "constructed"
             /\ strategy' = interval_function
             /\ sorting_name' = sorting_function
             /\ args' = kwargs
             /\ lookup' = [module |-> "package", registry |-> "sorting",
                           name |-> sorting_function,
                           error |-> None, func |-> found_sorting.func]
             /\ UNCHANGED error

\* the parameters the pipeline reads
ParameterNames == {"clength", "bottom_threshold", "upper_threshold", "randomness", "angle"}

\* the keyword arguments a caller of PixelSorter passes: the parameters the
\* caller has, as given, the rule number of the file strategies among them
KeywordNames == ParameterNames \cup {"ca_rule_number"}

KeywordArgs(c) == [key \in (DOMAIN c) \cap KeywordNames |-> c[key]]

\* PixelSortProcessor.process_image: sorter_args, with its defaults
sorter_args(config_dict) ==
    [clength          |-> DictGet(config_dict, "clength", 50),
     bottom_threshold |-> DictGet(config_dict, "bottom_threshold", Rat(25, 100)),
     upper_threshold  |-> DictGet(config_dict, "upper_threshold", Rat(80, 100)),
     randomness       |-> DictGet(config_dict, "randomness", 10),
     angle            |-> DictGet(config_dict, "angle", 0)]

\* PixelSorter(interval_function, sorting_function, **kwargs), the first
\* statement of a caller who then runs PixelSorter.process_image
call_PixelSorter ==
    /\ pc = "new"
    /\ PixelSorter_init(config.int_function, config.sorting_function, KeywordArgs(config))
    /\ UNCHANGED <<calls, pixels, intervals, aux, scratch, x, y, k, x_min, row,
                   sorted_pixels, config, image_file, original_image,
                   prepared_image, output_image, pixels_to_snap>>

\* PixelSortProcessor.process_image up to its call of PixelSorter.process_image
call_PixelSortProcessor_process_image ==
    /\ pc = "new"
    /\ PixelSorter_init(
           DictGet(config, "int_function", DictGet(config, "interval_function", "random")),
           DictGet(config, "sorting_function", "lightness"),
           sorter_args(config))
    /\ UNCHANGED <<calls, pixels, intervals, aux, scratch, x, y, k, x_min, row,
                   sorted_pixels, config, image_file, original_image,
                   prepared_image, output_image, pixels_to_snap>>

\* PixelSorter.prepare_image: load, rotate, convert to a pixel grid
prepare_image ==
    /\ pc = "constructed"
    /\ original_image' = image_file
    /\ LET angle == DictGet(args, "angle", 0)
       IN  IF angle # 0
           THEN \E nw \in 1..MaxRotated, nh \in 1..MaxRotated :
                    prepared_image' = Rotate(image_file, angle, nw, nh)
           ELSE prepared_image' = image_file
    /\ pixels' = image_to_pixel_array(prepared_image'.w, prepared_image'.h, prepared_image')
    /\ pc' = "pixels_ready"
    /\ UNCHANGED <<calls, intervals, args, sorting_name, strategy, aux, scratch, x, y, k,
                   x_min, row, sorted_pixels, error, config, image_file,
                   output_image, pixels_to_snap, lookup>>

\* PixelSorter.generate_intervals with an interval-returning strategy
generate_intervals ==
    /\ pixels # NoGrid
    /\ original_image # NoImage
    /\ \/ call_no_intervals
       \/ call_threshold_intervals
       \/ random_intervals_call

\* PixelSorter.sort_pixels with intervals at hand
sort_pixels ==
    /\ pixels # NoGrid
    /\ intervals # NoIntervals
    /\ original_image # NoImage
    /\ sort_image_call

\* PixelSorter.reconstruct_image
reconstruct_image ==
    /\ pc = "sorted"
    /\ sorted_pixels # NoGrid
    /\ prepared_image # NoImage
    /\ \E nw \in 1..MaxRotated, nh \in 1..MaxRotated :
           output_image' = ReconstructedImage(sorted_pixels, prepared_image,
                                              original_image, args, nw, nh)
    /\ pc' = "done"
    /\ UNCHANGED <<calls, pixels, intervals, args, sorting_name, strategy, aux, scratch,
                   x, y, k, x_min, row, sorted_pixels, error, config, image_file,
                   original_image, prepared_image, pixels_to_snap, lookup>>

Cfg(f, b, u, c, r, a) ==
    [int_function |-> f, sorting_function |-> "lightness", bottom_threshold |-> b,
     upper_threshold |-> u, clength |-> c, randomness |-> r, angle |-> a]

PipelineStrategies == {"none", "threshold", "random"}

\* the default thresholds and length, with every kind of angle
ValidConfigs ==
    {Cfg(f, Rat(25, 100), Rat(80, 100), 50, r, a) :
        f \in PipelineStrategies, r \in {0, 50}, a \in {0, 45, 90, 180, 270}}

\* one parameter off at a time: thresholds in the wrong order, equal, or out
\* of [0,1]; a negative length (not for the random strategy, whose loop does
\* not end with one); randomness and angle out of range
MalformedConfigs ==
    {Cfg(f, t[1], t[2], 50, 50, 0) :
        f \in PipelineStrategies,
        t \in {<<Rat(80, 100), Rat(20, 100)>>, <<Rat(50, 100), Rat(50, 100)>>,
               <<Rat(-10, 100), Rat(80, 100)>>, <<Rat(25, 100), Rat(150, 100)>>}}
    \cup {Cfg(f, Rat(25, 100), Rat(80, 100), -5, 50, 0) : f \in {"none", "threshold"}}
    \cup {Cfg(f, Rat(25, 100), Rat(80, 100), 50, r, 0) :
            f \in PipelineStrategies, r \in {-5, 150}}
    \cup {Cfg(f, Rat(25, 100), Rat(80, 100), 50, 50, a) :
            f \in PipelineStrategies, a \in {360, -90}}

UnknownNameConfigs == {Cfg("bogus", Rat(25, 100), Rat(80, 100), 50, 50, 0)}

\* a caller who leaves randomness and angle to the defaults
PartialConfigs ==
    {[int_function |-> f, sorting_function |-> "lightness", clength |-> 50,
      bottom_threshold |-> Rat(25, 100), upper_threshold |-> Rat(80, 100)] :
        f \in PipelineStrategies}

InitPipeline ==
    /\ config \in ValidConfigs \cup MalformedConfigs \cup UnknownNameConfigs
                  \cup PartialConfigs
    /\ \E w \in 1..MaxImage, h \in 1..MaxImage :
           image_file = Img(w, h, GradientGrid(w, h))
    /\ pc = "new"
    /\ args = NoArgs
    /\ strategy = None
    /\ sorting_name = None
    /\ lookup = NoLookup
    /\ original_image = NoImage
    /\ prepared_image = NoImage
    /\ output_image = NoImage
    /\ pixels_to_snap = {}
    /\ NoCalls
    /\ pixels = NoGrid
    /\ aux = NoGrid
    /\ intervals = NoIntervals
    /\ Locals0
    /\ sorted_pixels = NoGrid
    /\ error = None
    /\ scratch = NoGrid

NextPipeline ==
    \/ call_PixelSorter
    \/ call_PixelSortProcessor_process_image
    \/ prepare_image
    \/ generate_intervals
    \/ \E f \in RandomFractions : random_intervals_step(f)
    \/ sort_pixels
    \/ \E draw \in Draws : sort_image_interval(draw)
    \/ sort_image_row_end
    \/ reconstruct_image

SpecPipeline == InitPipeline /\ [][NextPipeline]_vars

-----------------------------------------------------------------------------
(* SpecAutomaton: generate_elementary_cellular_automata up to its rule      *)
(* table, effects/special_effects.py.  The argument rule_number -1 is None. *)

\* "Scale down for performance on large images"
scaled_width(width) == IF width <= 2500 THEN width \div 4 ELSE width \div 8
scaled_height(height) == IF height <= 2500 THEN height \div 4 ELSE height \div 8

recommended_rules == <<26, 19, 23, 25, 35, 106, 11, 110, 45, 41, 105, 54, 3, 15, 9, 154, 142>>

\* the rule numbers the call may go on with: the given one when it is in
\* range(256), else recommended_rules[rand.randrange(0, len(recommended_rules))]
ChosenRules(rule_number) ==
    IF rule_number = -1 \/ rule_number \notin 0..255
    THEN {recommended_rules[i] : i \in 1..Len(recommended_rules)}
    ELSE {rule_number}

\* for left in [False, True]: for middle in [False, True]: for right in [False, True]
TripleOrder ==
    <<<<FALSE, FALSE, FALSE>>, <<FALSE, FALSE, TRUE>>, <<FALSE, TRUE, FALSE>>,
      <<FALSE, TRUE, TRUE>>, <<TRUE, FALSE, FALSE>>, <<TRUE, FALSE, TRUE>>,
      <<TRUE, TRUE, FALSE>>, <<TRUE, TRUE, TRUE>>>>

\* rule[(left, middle, right)] = rule_num % 2 == 1; rule_num //= 2
RECURSIVE FillRule(_, _, _, _)
FillRule(rule, order, i, rule_num) ==
    IF i > Len(order) THEN rule
    ELSE FillRule([t \in (DOMAIN rule) \cup {order[i]} |->
                      IF t = order[i] THEN rule_num % 2 = 1 ELSE rule[t]],
                  order, i + 1, rule_num \div 2)

\* the empty dict
EmptyRule == [t \in {} |-> FALSE]

\* the triples taken with right outermost and left innermost
generate_rule_reversed(rule_num) ==
    FillRule(EmptyRule, [i \in 1..8 |-> <<TripleOrder[i][3], TripleOrder[i][2],
                                           TripleOrder[i][1]>>], 1, rule_num)

generate_rule(rule_num) == FillRule(EmptyRule, TripleOrder, 1, rule_num)

call_generate_elementary_cellular_automata ==
    /\ pc = "automaton_new"
    /\ \E chosen \in ChosenRules(automaton.rule_number) :
           automaton' = [width |-> automaton.width, height |-> automaton.height,
                         rule_number |-> automaton.rule_number,
                         scaled_width |-> scaled_width(automaton.width),
                         scaled_height |-> scaled_height(automaton.height),
                         chosen_rule |-> chosen,
                         rule |-> generate_rule(chosen)]
    /\ pc' = "rule_ready"
    /\ UNCHANGED <<pixels, intervals, args, sorting_name, strategy, aux, scratch,
                   x, y, k, x_min, row, sorted_pixels, error, config, image_file,
                   original_image, prepared_image, output_image, pixels_to_snap,
                   lookup, crop, validation, others>>

\* sizes below, at and above the scaling limit, and sizes no divisor divides
AutomatonSizes == {0, 3, 4, 8, 2500, 2501, 2504}

InitAutomaton ==
    /\ \E w \in AutomatonSizes, h \in AutomatonSizes, r \in -1..256 :
           automaton = [width |-> w, height |-> h, rule_number |-> r]
    /\ pc = "automaton_new"
    /\ crop = NoCrop
    /\ validation = NoValidation
    /\ config = NoArgs
    /\ image_file = NoImage
    /\ original_image = NoImage
    /\ prepared_image = NoImage
    /\ output_image = NoImage
    /\ pixels_to_snap = {}
    /\ lookup = NoLookup
    /\ pixels = NoGrid
    /\ strategy = None
    /\ sorting_name = None
    /\ args = NoArgs
    /\ aux = NoGrid
    /\ intervals = NoIntervals
    /\ Locals0
    /\ sorted_pixels = NoGrid
    /\ error = None
    /\ scratch = NoGrid
    /\ NoOthers

NextAutomaton == call_generate_elementary_cellular_automata

SpecAutomaton == InitAutomaton /\ [][NextAutomaton]_vars

-----------------------------------------------------------------------------
(* SpecPattern: generate_elementary_cellular_automata up to the pattern of  *)
(* generate_ca, on sizes small enough to draw every random bit              *)

MaxPattern == 3

\* the interior reads the cells above and right of it only
ca_row_shifted(rule, width, above, edge) ==
    <<edge[1]>>
    \o [col \in 1..(width - 2) |->
           rule[<<above[col + 1], above[col + 2], above[col + 2]>>]]
    \o <<edge[2]>>

\* a later row: a random left edge, the interior from the rule applied to the
\* row above, a random right edge
ca_row(rule, width, above, edge) ==
    <<edge[1]>>
    \o [col \in 1..(width - 2) |-> rule[<<above[col], above[col + 1], above[col + 2]>>]]
    \o <<edge[2]>>

\* for y in range(1, int(scaled_height)): the rows from generation gen on
RECURSIVE ca_rows(_, _, _, _, _, _)
ca_rows(rule, width, height, ca, gen, edges) ==
    IF gen >= height THEN ca
    ELSE ca_rows(rule, width, height,
                 Append(ca, ca_row(rule, width, ca[gen], edges[gen])), gen + 1, edges)

\* generate_ca: first_row and edges are the outcomes of rand.getrandbits(1)
generate_ca(rule, width, height, first_row, edges) ==
    ca_rows(rule, width, height, <<first_row>>, 1, edges)

RandomBits(n) == [1..n -> BOOLEAN]

generate_ca_call ==
    /\ pc = "rule_ready"
    /\ \E first_row \in RandomBits(automaton.scaled_width),
          edges \in [1..(automaton.scaled_height - 1) -> BOOLEAN \X BOOLEAN] :
           automaton' = [width |-> automaton.width, height |-> automaton.height,
                         rule_number |-> automaton.rule_number,
                         scaled_width |-> automaton.scaled_width,
                         scaled_height |-> automaton.scaled_height,
                         chosen_rule |-> automaton.chosen_rule,
                         rule |-> automaton.rule,
                         ca |-> generate_ca(automaton.rule, automaton.scaled_width,
                                            automaton.scaled_height, first_row, edges)]
    /\ pc' = "pattern_ready"
    /\ UNCHANGED <<pixels, intervals, args, sorting_name, strategy, aux, scratch,
                   x, y, k, x_min, row, sorted_pixels, error, config, image_file,
                   original_image, prepared_image, output_image, pixels_to_snap,
                   lookup, crop, validation, others>>

\* the sizes whose scaled size is 0..MaxPattern, and two rules
PatternSizes == {4 * n : n \in 0..MaxPattern}
PatternRules == {30, 110}

InitPattern ==
    /\ \E w \in PatternSizes, h \in PatternSizes, r \in PatternRules :
           automaton = [width |-> w, height |-> h, rule_number |-> r]
    /\ pc = "automaton_new"
    /\ crop = NoCrop
    /\ validation = NoValidation
    /\ NoOthers
    /\ config = NoArgs
    /\ image_file = NoImage
    /\ original_image = NoImage
    /\ prepared_image = NoImage
    /\ output_image = NoImage
    /\ pixels_to_snap = {}
    /\ lookup = NoLookup
    /\ pixels = NoGrid
    /\ strategy = None
    /\ sorting_name = None
    /\ args = NoArgs
    /\ aux = NoGrid
    /\ intervals = NoIntervals
    /\ Locals0
    /\ sorted_pixels = NoGrid
    /\ error = None
    /\ scratch = NoGrid

NextPattern == call_generate_elementary_cellular_automata \/ generate_ca_call

SpecPattern == InitPattern /\ [][NextPattern]_vars

-----------------------------------------------------------------------------
(* SpecRule: the rule number of a configuration on its way from either      *)
(* entry point to generate_elementary_cellular_automata                     *)

\* file_mask_intervals / file_edges_intervals up to their call of
\* generate_elementary_cellular_automata:
\* rule_number = args.get('ca_rule_number', None)
call_file_intervals_automaton ==
    /\ pc = "pixels_ready"
    /\ strategy \in {"file", "file-edges"}
    /\ automaton' = [width |-> Len(pixels[1]), height |-> Len(pixels),
                     rule_number |-> DictGet(args, "ca_rule_number", -1)]
    /\ pc' = "automaton_new"
    /\ UNCHANGED <<pixels, intervals, args, sorting_name, strategy, aux, scratch,
                   x, y, k, x_min, row, sorted_pixels, error, config, image_file,
                   original_image, prepared_image, output_image, pixels_to_snap,
                   lookup, crop, validation, others>>

\* rule numbers at both ends of range(256), inside it, and just outside it
RuleNumbers == {0, 30, 255, 256}

\* configurations of the two file strategies, without and with a rule number
RuleConfigs ==
    LET base == {Cfg(f, Rat(25, 100), Rat(80, 100), 50, 50, 0) :
                    f \in {"file", "file-edges"}}
    IN  base \cup {c @@ [ca_rule_number |-> r] : c \in base, r \in RuleNumbers}

InitRule ==
    /\ config \in RuleConfigs
    /\ \E w \in 1..MaxImage, h \in 1..MaxImage :
           image_file = Img(w, h, GradientGrid(w, h))
    /\ pc = "new"
    /\ args = NoArgs
    /\ strategy = None
    /\ sorting_name = None
    /\ lookup = NoLookup
    /\ original_image = NoImage
    /\ prepared_image = NoImage
    /\ output_image = NoImage
    /\ pixels_to_snap = {}
    /\ NoCalls
    /\ pixels = NoGrid
    /\ aux = NoGrid
    /\ intervals = NoIntervals
    /\ Locals0
    /\ sorted_pixels = NoGrid
    /\ error = None
    /\ scratch = NoGrid

NextRule ==
    \/ call_PixelSorter
    \/ call_PixelSortProcessor_process_image
    \/ prepare_image
    \/ call_file_intervals_automaton
    \/ call_generate_elementary_cellular_automata

SpecRule == InitRule /\ [][NextRule]_vars

-----------------------------------------------------------------------------
(* SpecPresets: the preset registry of config/presets.py.  A name is the    *)
(* sequence of its characters; PRESETS is the dict as the sequence of its   *)
(* items in insertion order.                                                *)

MaxName == 2
MaxRegistrations == 2

ascii_uppercase ==
    <<"A", "B", "C", "D", "E", "F", "G", "H", "I", "J", "K", "L", "M",
      "N", "O", "P", "Q", "R", "S", "T", "U", "V", "W", "X", "Y", "Z">>
ascii_lowercase ==
    <<"a", "b", "c", "d", "e", "f", "g", "h", "i", "j", "k", "l", "m",
      "n", "o", "p", "q", "r", "s", "t", "u", "v", "w", "x", "y", "z">>

IsUpper(ch) == \E i \in 1..26 : ascii_uppercase[i] = ch
IsLower(ch) == \E i \in 1..26 : ascii_lowercase[i] = ch

\* str.lower(): every upper-case character by its lower-case one
str_lower(name) ==
    [i \in 1..Len(name) |->
        IF IsUpper(name[i])
        THEN ascii_lowercase[CHOOSE j \in 1..26 : ascii_uppercase[j] = name[i]]
        ELSE name[i]]

\* str.islower(): at least one cased character, and none in upper case
str_islower(name) ==
    /\ \E i \in 1..Len(name) : IsLower(name[i])
    /\ \A i \in 1..Len(name) : ~IsUpper(name[i])

\* a preset: its name, and a description that tells it from every other one
Preset(name, description) == [name |-> name, description |-> description]

\* None, as the result of get_preset
NoPreset == Preset(<<>>, -1)

\* d[key] = value: a key the dict has keeps its place
DictSet(d, key, value) ==
    IF \E i \in 1..Len(d) : d[i].key = key
    THEN [i \in 1..Len(d) |-> IF d[i].key = key THEN [key |-> key, value |-> value]
                                ELSE d[i]]
    ELSE Append(d, [key |-> key, value |-> value])

\* PRESETS[preset.name.lower()] = preset; PRESETS[preset.name] = preset
register_preset(registry, preset) ==
    DictSet(DictSet(registry, str_lower(preset.name), preset), preset.name, preset)

\* PRESETS.get(name.lower())
get_preset(registry, name) ==
    IF \E i \in 1..Len(registry) : registry[i].key = str_lower(name)
    THEN registry[CHOOSE i \in 1..Len(registry) : registry[i].key = str_lower(name)].value
    ELSE NoPreset

\* [name for name in PRESETS.keys() if name.islower()]
list_presets(registry) ==
    LET keys == [i \in 1..Len(registry) |-> registry[i].key]
    IN  SelectSeq(keys, str_islower)

\* the names of the presets of preset_creators, in its order
BuiltInNames ==
    <<<<"M", "a", "i", "n">>, <<"F", "i", "l", "e">>,
      <<"R", "a", "n", "d", "o", "m">>, <<"K", "i", "m", "s">>,
      <<"G", "e", "n", "t", "l", "e">>, <<"I", "n", "t", "e", "n", "s", "e">>,
      <<"W", "a", "v", "e", "s">>, <<"E", "d", "g", "e", "s">>>>

\* _initialize_presets: the loop over preset_creators from creator i on
RECURSIVE initialize_presets_from(_, _)
initialize_presets_from(registry, i) ==
    IF i > Len(BuiltInNames) THEN registry
    ELSE initialize_presets_from(
             register_preset(registry, Preset(BuiltInNames[i], 0)), i + 1)

initialize_presets == initialize_presets_from(<<>>, 1)

\* names of a lower-case letter, an upper-case letter and a digit, and the
\* name of a built-in preset
NameChars == {"a", "A", "1"}
PresetNames ==
    UNION {[1..n -> NameChars] : n \in 1..MaxName} \cup {<<"m", "a", "i", "n">>}

\* the registry with nothing listed or looked up
PresetState(registry, registered) ==
    [PRESETS |-> registry, registered |-> registered, listed |-> <<>>,
     got |-> [name |-> <<>>, preset |-> NoPreset]]

PresetsUnchanged ==
    UNCHANGED <<pixels, intervals, args, sorting_name, strategy, aux, scratch,
                x, y, k, x_min, row, sorted_pixels, error, config, image_file,
                original_image, prepared_image, output_image, pixels_to_snap,
                lookup, automaton, crop, validation, call, history, sorter_path>>

call_register_preset ==
    /\ pc \in {"presets_ready", "listed", "got"}
    /\ Len(presets.registered) < MaxRegistrations
    /\ \E name \in PresetNames :
           LET preset == Preset(name, Len(presets.registered) + 1)
           IN  presets' = PresetState(register_preset(presets.PRESETS, preset),
                                      Append(presets.registered, preset))
    /\ pc' = "presets_ready"
    /\ PresetsUnchanged

call_list_presets ==
    /\ pc \in {"presets_ready", "listed", "got"}
    /\ presets' = [presets EXCEPT !.listed = list_presets(presets.PRESETS)]
    /\ pc' = "listed"
    /\ PresetsUnchanged

call_get_preset ==
    /\ pc \in {"presets_ready", "listed", "got"}
    /\ \E name \in PresetNames :
           presets' = [presets EXCEPT
               !.got = [name |-> name, preset |-> get_preset(presets.PRESETS, name)]]
    /\ pc' = "got"
    /\ PresetsUnchanged

\* the module as imported
InitPresets ==
    /\ presets = PresetState(initialize_presets, <<>>)
    /\ pc = "presets_ready"
    /\ call = NoCall
    /\ history = NoHistory
    /\ sorter_path = NoImage
    /\ automaton = NoAutomaton
    /\ crop = NoCrop
    /\ validation = NoValidation
    /\ config = NoArgs
    /\ image_file = NoImage
    /\ original_image = NoImage
    /\ prepared_image = NoImage
    /\ output_image = NoImage
    /\ pixels_to_snap = {}
    /\ lookup = NoLookup
    /\ pixels = NoGrid
    /\ strategy = None
    /\ sorting_name = None
    /\ args = NoArgs
    /\ aux = NoGrid
    /\ intervals = NoIntervals
    /\ Locals0
    /\ sorted_pixels = NoGrid
    /\ error = None
    /\ scratch = NoGrid

NextPresets == call_register_preset \/ call_list_presets \/ call_get_preset

SpecPresets == InitPresets /\ [][NextPresets]_vars

-----------------------------------------------------------------------------
(* SpecValidate: the two validations of a sorting configuration *)

ValidationCall(outcome) ==
    /\ validation' = outcome
    /\ error' = outcome.error
    /\ pc' = IF outcome.error = None THEN "validated" ELSE "error"
    /\ UNCHANGED <<pixels, intervals, args, sorting_name, strategy, aux, scratch,
                   x, y, k, x_min, row, sorted_pixels, config, image_file,
                   original_image, prepared_image, output_image, pixels_to_snap,
                   lookup, automaton, crop, others>>

call_validate_config ==
    /\ pc = "config_ready"
    /\ ValidationCall(validate_config(config))

call_SortingConfig_validate ==
    /\ pc = "config_ready"
    /\ ValidationCall(SortingConfig_validate(config))

\* below, at and above the ends of each range
ThresholdValues == {Rat(-1, 10), Rat(0, 1), Rat(1, 4), Rat(1, 1), Rat(11, 10)}
ValidateClengths == {-1, 0, 50}
ValidateRandomness == {-1, 0, 100, 101}
ValidateAngles == {-1, 0, 359, 360}

InitValidate ==
    /\ \E b \in ThresholdValues, u \in ThresholdValues, c \in ValidateClengths,
          r \in ValidateRandomness, a \in ValidateAngles :
           config = Cfg("random", b, u, c, r, a)
    /\ pc = "config_ready"
    /\ validation = NoValidation
    /\ automaton = NoAutomaton
    /\ crop = NoCrop
    /\ image_file = NoImage
    /\ original_image = NoImage
    /\ prepared_image = NoImage
    /\ output_image = NoImage
    /\ pixels_to_snap = {}
    /\ lookup = NoLookup
    /\ pixels = NoGrid
    /\ strategy = None
    /\ sorting_name = None
    /\ args = NoArgs
    /\ aux = NoGrid
    /\ intervals = NoIntervals
    /\ Locals0
    /\ sorted_pixels = NoGrid
    /\ error = None
    /\ scratch = NoGrid
    /\ NoOthers

NextValidate == call_validate_config \/ call_SortingConfig_validate

SpecValidate == InitValidate /\ [][NextValidate]_vars

-----------------------------------------------------------------------------
(* SpecCrop: crop_to_reference on images of every small size *)

MaxCrop == 4

\* int(n / 2): the float half of an integer, truncated toward zero
int_of_half(n) == IF n >= 0 THEN n \div 2 ELSE -((-n) \div 2)

\* utils/image_utils.py: crop_to_reference; dx / 2 + reference_size[0] is the
\* half of dx + 2 * reference_size[0]
crop_to_reference(image_to_crop, reference_image) ==
    LET dx    == image_to_crop.w - reference_image.w
        dy    == image_to_crop.h - reference_image.h
        left  == int_of_half(dx)
        upper == int_of_half(dy)
        right == int_of_half(dx + 2 * reference_image.w)
        lower == int_of_half(dy + 2 * reference_image.h)
    IN  Crop(image_to_crop, <<left, upper, right, lower>>)

call_crop_to_reference ==
    /\ pc = "crop_new"
    /\ crop' = [crop EXCEPT !.returned =
                    crop_to_reference(crop.image_to_crop, crop.reference_image)]
    /\ pc' = "cropped"
    /\ UNCHANGED <<pixels, intervals, args, sorting_name, strategy, aux, scratch,
                   x, y, k, x_min, row, sorted_pixels, error, config, image_file,
                   original_image, prepared_image, output_image, pixels_to_snap,
                   lookup, automaton, validation, others>>

\* an image whose pixels record their own position
CropImage(w, h) == Img(w, h, [r \in 1..h |-> [c \in 1..w |-> <<r, c, 0, 255>>]])

InitCrop ==
    /\ \E cw \in 1..MaxCrop, ch \in 1..MaxCrop, rw \in 1..MaxCrop, rh \in 1..MaxCrop :
           crop = [image_to_crop   |-> CropImage(cw, ch),
                   reference_image |-> CropImage(rw, rh),
                   returned        |-> NoImage]
    /\ pc = "crop_new"
    /\ validation = NoValidation
    /\ automaton = NoAutomaton
    /\ config = NoArgs
    /\ image_file = NoImage
    /\ original_image = NoImage
    /\ prepared_image = NoImage
    /\ output_image = NoImage
    /\ pixels_to_snap = {}
    /\ lookup = NoLookup
    /\ pixels = NoGrid
    /\ strategy = None
    /\ sorting_name = None
    /\ args = NoArgs
    /\ aux = NoGrid
    /\ intervals = NoIntervals
    /\ Locals0
    /\ sorted_pixels = NoGrid
    /\ error = None
    /\ scratch = NoGrid
    /\ NoOthers

NextCrop == call_crop_to_reference

SpecCrop == InitCrop /\ [][NextCrop]_vars

-----------------------------------------------------------------------------
(* SpecSweep: the de-noise sweep of edges, file and file-edges applied to   *)
(* a black/white image, and applied again to its own result                 *)

MaxSweepWidth == 4

SweepImages ==
    UNION {GridsOver(FilterPalette, w, MaskHeight) : w \in (SweepStop + 2)..MaxSweepWidth}

\* the sweep applied to the black/white image held in scratch
call_clean_up ==
    /\ pc \in {"sweep_new", "swept"}
    /\ scratch' = CleanUp(scratch, Len(scratch[1]))
    /\ pc' = IF pc = "sweep_new" THEN "swept" ELSE "swept_again"
    /\ UNCHANGED <<pixels, intervals, x, y, k, x_min, row, sorted_pixels, error, params>>

InitSweep ==
    /\ aux \in SweepImages
    /\ scratch = aux
    /\ pc = "sweep_new"
    /\ pixels = NoGrid
    /\ strategy = None
    /\ sorting_name = None
    /\ args = NoArgs
    /\ intervals = NoIntervals
    /\ Locals0
    /\ NoPipeline
    /\ sorted_pixels = NoGrid
    /\ error = None

NextSweep == call_clean_up

SpecSweep == InitSweep /\ [][NextSweep]_vars

-----------------------------------------------------------------------------
(* SpecMethods: the four methods of one PixelSorter (and process_image),    *)
(* called in any order and on more than one image.  A call is one step.     *)

\* the length of the longest boundary list
LongestRow(lists) ==
    IF Len(lists) = 0 THEN 0
    ELSE CHOOSE n \in {Len(lists[r]) : r \in 1..Len(lists)} :
             \A r \in 1..Len(lists) : Len(lists[r]) <= n

\* sort_image, one row from boundary i on; draws[i] is the draw of interval i
RECURSIVE sort_image_row(_, _, _, _, _, _, _)
sort_image_row(rowpx, bounds, i, xm, draws, a, name) ==
    IF i > Len(bounds) THEN RemainingPixels(rowpx, xm)
    ELSE ProcessInterval(ExtractInterval(rowpx, xm, bounds[i]), draws[i], a, name)
         \o sort_image_row(rowpx, bounds, i + 1, bounds[i], draws, a, name)

\* sort_image as one call: intervals[y] of a missing row raises IndexError
sort_image(px, iv, a, name, draws) ==
    IF Len(iv) < Len(px) THEN [error |-> "IndexError", sorted_pixels |-> NoGrid]
    ELSE [error |-> None,
          sorted_pixels |-> [r \in 1..Len(px) |->
              sort_image_row(px[r], iv[r], 1, 0, draws[r], a, name)]]

\* the fields of the sorter
Self ==
    [original_image |-> original_image, prepared_image |-> prepared_image,
     pixels |-> pixels, intervals |-> intervals, sorted_pixels |-> sorted_pixels,
     output_image |-> output_image, history |-> history]

\* how a call ends: it returns, it is rejected by its guard (ValueError), or
\* something it calls raises
Returns(self) == [outcome |-> "returned", error |-> None, self |-> self]
Rejects(self) == [outcome |-> "rejected", error |-> "ProcessingError", self |-> self]
Raises(self, exception) == [outcome |-> "raised", error |-> exception, self |-> self]

\* PixelSorter.prepare_image; image is what the path names, NoImage if nothing
PixelSorter_prepare_image(self, image, a, nw, nh) ==
    IF image = NoImage THEN Raises(self, "ImageNotFoundError")
    ELSE LET angle    == DictGet(a, "angle", 0)
             prepared == IF angle # 0 THEN Rotate(image, angle, nw, nh) ELSE image
         IN  Returns([self EXCEPT
                 !.original_image = image,
                 !.prepared_image = prepared,
                 !.pixels = image_to_pixel_array(prepared.w, prepared.h, prepared),
                 !.history.prepared = TRUE])

\* the three strategies that return a pixel grid instead of intervals
AlternateEffects == {"snap", "shuffle-total", "shuffle-axis"}

\* shuffle_image_rows: numpy's shuffle of every row; row_perms[r] is its outcome
shuffle_image_rows(image, row_perms) ==
    Img(image.w, image.h,
        [r \in 1..image.h |-> [c \in 1..image.w |-> image.data[r][row_perms[r][c]]]])

\* shuffle_image_vertically: numpy's shuffle of the rows; perm is its outcome
shuffle_image_vertically(image, perm) ==
    Img(image.w, image.h, [r \in 1..image.h |-> image.data[perm[r]]])

\* shuffle_total_intervals / shuffle_axis_intervals: the image is opened again
\* from args["url"], which names nothing unless process_image has set it
shuffle_total_intervals(px, url_image, row_perms) ==
    LET shuffled_img == shuffle_image_rows(url_image, row_perms)
    IN  image_to_pixel_array(shuffled_img.w, shuffled_img.h, shuffled_img)

shuffle_axis_intervals(px, url_image, perm) ==
    LET shuffled_img == shuffle_image_vertically(url_image, perm)
    IN  image_to_pixel_array(shuffled_img.w, shuffled_img.h, shuffled_img)

\* the random outcomes an alternate effect can draw on a grid / an image
EffectChoices(name, px, url_image) ==
    CASE name = "snap" ->
            SnapChoices(IF Len(px) > 0 THEN Len(px[1]) ELSE 0, Len(px))
      [] name = "shuffle-total" ->
            IF url_image = NoImage THEN {None}
            ELSE [1..url_image.h -> Permutations(1..url_image.w)]
      [] name = "shuffle-axis" ->
            IF url_image = NoImage THEN {None}
            ELSE Permutations(1..url_image.h)
      [] OTHER -> {None}

\* PixelSorter.generate_intervals; url_image is the image args_with_image["url"]
\* names, choice the random outcome of the effect
PixelSorter_generate_intervals(self, name, a, url_image, choice) ==
    IF self.pixels = NoGrid THEN Rejects(self)
    ELSE IF name \in {"shuffle-total", "shuffle-axis"} /\ url_image = NoImage
    THEN Raises(self, "NetworkError")
    ELSE IF name \in AlternateEffects
    THEN LET result == CASE name = "snap" -> snap_intervals(self.pixels, choice)
                         [] name = "shuffle-total" ->
                                shuffle_total_intervals(self.pixels, url_image, choice)
                         [] name = "shuffle-axis" ->
                                shuffle_axis_intervals(self.pixels, url_image, choice)
         IN  Returns([self EXCEPT !.sorted_pixels = result,
                                  !.intervals = NoIntervals,
                                  !.history.effect = TRUE,
                                  !.history.intervals = NoImage,
                                  !.history.sorted_pixels =
                                      IF name = "snap" THEN self.original_image
                                      ELSE url_image])
    ELSE LET result == CASE name = "none" -> no_intervals(self.pixels, a)
                         [] name = "threshold" -> threshold_intervals(self.pixels, a)
         IN  Returns([self EXCEPT !.intervals = result,
                                  !.history.generated = TRUE,
                                  !.history.intervals = self.original_image])

\* without the shortcut for an applied effect: the rows are sorted whole
PixelSorter_sort_pixels_always(self, a, name, draws) ==
    IF self.pixels = NoGrid THEN Rejects(self)
    ELSE IF self.sorted_pixels = NoGrid /\ self.intervals = NoIntervals THEN Rejects(self)
    ELSE LET iv == IF self.intervals = NoIntervals THEN no_intervals(self.pixels, a)
                   ELSE self.intervals
             result == sort_image(self.pixels, iv, a, name,
                           [r \in 1..Len(self.pixels) |-> [i \in 1..LongestRow(iv) |-> 100]])
         IN  IF result.error # None THEN Raises(self, "ProcessingError")
             ELSE Returns([self EXCEPT !.sorted_pixels = result.sorted_pixels,
                                       !.history.sorted = TRUE,
                                       !.history.sorted_pixels = self.original_image])

\* PixelSorter.sort_pixels
PixelSorter_sort_pixels(self, a, name, draws) ==
    IF self.pixels = NoGrid THEN Rejects(self)
    ELSE IF self.sorted_pixels # NoGrid /\ self.intervals = NoIntervals
    THEN Returns(self)
    ELSE IF self.intervals = NoIntervals THEN Rejects(self)
    ELSE LET result == sort_image(self.pixels, self.intervals, a, name, draws)
         IN  IF result.error # None THEN Raises(self, "ProcessingError")
             ELSE Returns([self EXCEPT !.sorted_pixels = result.sorted_pixels,
                                       !.history.sorted = TRUE,
                                       !.history.sorted_pixels = self.original_image])

\* the guard asks for a prepared image only
PixelSorter_reconstruct_image_unguarded(self, a, nw, nh) ==
    IF self.prepared_image = NoImage THEN Rejects(self)
    ELSE Returns([self EXCEPT !.output_image =
             ReconstructedImage(self.sorted_pixels, self.prepared_image,
                                self.original_image, a, nw, nh)])

\* PixelSorter.reconstruct_image
PixelSorter_reconstruct_image(self, a, nw, nh) ==
    IF self.sorted_pixels = NoGrid \/ self.prepared_image = NoImage THEN Rejects(self)
    ELSE Returns([self EXCEPT !.output_image =
             ReconstructedImage(self.sorted_pixels, self.prepared_image,
                                self.original_image, a, nw, nh)])

\* a call of a method as a step: the fields it assigned, how it ended
MethodReturn(method, result) ==
    /\ original_image' = result.self.original_image
    /\ prepared_image' = result.self.prepared_image
    /\ pixels' = result.self.pixels
    /\ intervals' = result.self.intervals
    /\ sorted_pixels' = result.self.sorted_pixels
    /\ output_image' = result.self.output_image
    /\ history' = result.self.history
    /\ call' = [method |-> method, outcome |-> result.outcome]
    /\ error' = result.error
    /\ UNCHANGED <<args, sorting_name, strategy, aux, scratch, x, pc, y, k, x_min, row,
                   config, image_file, pixels_to_snap, lookup, automaton, crop,
                   validation, presets>>

\* the size the library gives a rotated image: fixed by the image for a
\* multiple of 90 degrees
RotatedSizes(a) ==
    IF DictGet(a, "angle", 0) % 90 = 0 THEN {<<1, 1>>}
    ELSE (1..MaxRotated) \X (1..MaxRotated)

\* a wide and a tall image, and a path that names no image
MethodImages ==
    {Img(MaxImage, 1, GradientGrid(MaxImage, 1)), Img(1, MaxImage, GradientGrid(1, MaxImage))}

\* outcomes of rand.randint(0, 100), one per interval of every row
\* (every draw is >= a randomness of 0: one draw then stands for all)
MethodDraws(a) == IF Randomness(a) = 0 THEN {100} ELSE {0, 100}
\* none are drawn when sort_image is not reached or fails on a missing row
DrawsFor(px, iv, a) ==
    IF px = NoGrid \/ iv = NoIntervals \/ Len(iv) < Len(px) THEN {<<>>}
    ELSE [1..Len(px) -> [1..LongestRow(iv) -> MethodDraws(a)]]

call_prepare_image ==
    /\ pc = "idle"
    /\ \E image \in MethodImages \cup {NoImage}, size \in RotatedSizes(args) :
           MethodReturn("prepare_image",
               PixelSorter_prepare_image(Self, image, args, size[1], size[2]))
    /\ UNCHANGED sorter_path

call_generate_intervals ==
    /\ pc = "idle"
    /\ \E choice \in EffectChoices(strategy, pixels, sorter_path) :
           MethodReturn("generate_intervals",
               PixelSorter_generate_intervals(Self, strategy, args, sorter_path, choice))
    /\ UNCHANGED sorter_path

call_sort_pixels ==
    /\ pc = "idle"
    /\ \E draws \in DrawsFor(pixels, intervals, args) :
           MethodReturn("sort_pixels",
               PixelSorter_sort_pixels(Self, args, sorting_name, draws))
    /\ UNCHANGED sorter_path

call_reconstruct_image ==
    /\ pc = "idle"
    /\ \E size \in RotatedSizes(args) :
           MethodReturn("reconstruct_image",
               PixelSorter_reconstruct_image(Self, args, size[1], size[2]))
    /\ UNCHANGED sorter_path

\* PixelSorter.process_image: it stores the path, then makes the four calls
\* in order; the first exception ends it
call_process_image ==
    /\ pc = "idle"
    /\ \E image \in MethodImages \cup {NoImage}, size \in RotatedSizes(args) :
         LET prepared == PixelSorter_prepare_image(Self, image, args, size[1], size[2])
         IN  /\ sorter_path' = image
             /\ IF prepared.error # None THEN MethodReturn("process_image", prepared)
                ELSE \E choice \in EffectChoices(strategy, prepared.self.pixels, image) :
                  LET generated == PixelSorter_generate_intervals(
                                       prepared.self, strategy, args, image, choice)
                  IN  IF generated.error # None
                      THEN MethodReturn("process_image", generated)
                      ELSE \E draws \in DrawsFor(generated.self.pixels,
                                                  generated.self.intervals, args) :
                        LET sorted == PixelSorter_sort_pixels(
                                          generated.self, args, sorting_name, draws)
                        IN  IF sorted.error # None
                            THEN MethodReturn("process_image", sorted)
                            ELSE \E back \in RotatedSizes(args) :
                                   MethodReturn("process_image",
                                       PixelSorter_reconstruct_image(
                                           sorted.self, args, back[1], back[2]))

MethodStrategies == {"none", "threshold"} \cup AlternateEffects

MethodArgs ==
    {[bottom_threshold |-> Rat(25, 100), upper_threshold |-> Rat(80, 100),
      clength |-> 50, randomness |-> r, angle |-> a] : r \in {0, 50}, a \in {0, 90}}

\* a sorter as its constructor leaves it
InitMethods ==
    /\ strategy \in MethodStrategies
    /\ sorting_name = "lightness"
    /\ args \in MethodArgs
    /\ pc = "idle"
    /\ original_image = NoImage
    /\ prepared_image = NoImage
    /\ pixels = NoGrid
    /\ intervals = NoIntervals
    /\ sorted_pixels = NoGrid
    /\ output_image = NoImage
    /\ config = NoArgs
    /\ image_file = NoImage
    /\ pixels_to_snap = {}
    /\ lookup = NoLookup
    /\ NoCalls
    /\ aux = NoGrid
    /\ scratch = NoGrid
    /\ Locals0
    /\ error = None

NextMethods ==
    \/ call_prepare_image
    \/ call_generate_intervals
    \/ call_sort_pixels
    \/ call_reconstruct_image
    \/ call_process_image

SpecMethods == InitMethods /\ [][NextMethods]_vars

-----------------------------------------------------------------------------
(* Properties *)

Count(s, p) == Cardinality({i \in 1..Len(s) : s[i] = p})
IsPermutation(s, t) ==
    /\ Len(s) = Len(t)
    /\ \A i \in 1..Len(s) : Count(s, s[i]) = Count(t, s[i])
IsAscending(s, name) ==
    \A i \in 1..(Len(s) - 1) : RatLeq(SortKey(name, s[i]), SortKey(name, s[i + 1]))

\* C1: with the `none` intervals and randomness = 100, sort_image returns a
\* grid equal to its input, whatever the random draws were.
C1_NoneRandomness100Identity ==
    (pc = "sorted" /\ strategy = "none" /\ Randomness(args) = 100)
        => sorted_pixels = pixels

WellFormedIntervals ==
    /\ Len(intervals) = Len(pixels)
    /\ \A r \in 1..Len(pixels) :
          LET s == intervals[r]
          IN  /\ Len(s) > 0
              /\ IsNonDecreasing(s)
              /\ \A i \in 1..Len(s) : s[i] \in 0..Len(pixels[r])
              /\ s[Len(s)] = Len(pixels[r])

\* C3: for well-formed boundary lists every row sort_image produces has the
\* width of the input row, and the output has as many rows as the input,
\* for every randomness value and every draw.
C3_WidthPreserved ==
    (pc \in {"sort_row", "sorted"} /\ WellFormedIntervals)
        => /\ \A r \in 1..Len(sorted_pixels) : Len(sorted_pixels[r]) = Len(pixels[r])
           /\ pc = "sorted" => Len(sorted_pixels) = Len(pixels)

C3_Witness ==
    /\ pc = "sorted" /\ WellFormedIntervals
    /\ Randomness(args) = 50
    /\ Len(pixels) >= 1
    /\ Len(pixels[1]) >= 2
    /\ intervals[1] = <<1, Len(pixels[1])>>
    /\ sorted_pixels[1] # pixels[1]

\* the number of pixels the boundaries of one row reconstruct
RECURSIVE ReconstructedLen(_, _, _)
ReconstructedLen(rowpx, s, lo) ==
    IF s = <<>> THEN 0
    ELSE Len(ExtractInterval(rowpx, lo, s[1])) + ReconstructedLen(rowpx, Tail(s), s[1])

\* C5: a row whose boundaries reconstruct fewer pixels than its width is
\* padded with copies of its last original pixel up to the original width.
C5_PaddedWithLastPixel ==
    pc = "sorted"
        => \A r \in 1..Len(pixels) :
              LET w == Len(pixels[r])
                  n == ReconstructedLen(pixels[r], intervals[r], 0)
              IN  n < w => /\ Len(sorted_pixels[r]) = w
                           /\ \A i \in (n + 1)..w : sorted_pixels[r][i] = pixels[r][w]

\* C6: no strategy call and no step of sort_image changes the grid the caller
\* passed in; the de-noise sweep of the mask strategies works on its own map.
C6_InputGridNotMutated == [][pixels' = pixels]_vars

C6_Witness ==
    /\ pc = "sorted"
    /\ strategy = "edges"
    /\ scratch # ThresholdMap(aux, args.bottom_threshold)
    /\ sorted_pixels # pixels

\* C10: for every characteristic length >= 0 the accumulation loops of the
\* random and waves strategies terminate, given fair draws.
C10_LoopsTerminate == <>(pc = "intervals_ready")

\* C9: the snap effect on a W x H image erases exactly floor(W*H/2) distinct
\* coordinates to (0,0,0,0) and leaves the pixel at every other coordinate
\* unchanged, whether W*H is even or odd
C9_SnapErasesFloorHalf ==
    (pc = "effect_ready" /\ strategy = "snap" /\ Len(pixels) > 0) =>
        LET height == Len(pixels)
            width  == Len(pixels[1])
        IN  /\ Cardinality(pixels_to_snap) = (width * height) \div 2
            /\ \A r \in 1..height, c \in 1..width :
                   sorted_pixels[r][c] = IF <<c - 1, r - 1>> \in pixels_to_snap
                                         THEN TRANSPARENT ELSE pixels[r][c]

\* C7: a lookup of a name that is not in the registry it consults raises
\* FunctionNotFoundError and yields no function, never a default; a lookup of
\* a registered name returns exactly the function registered under it
C7_UnknownNameRaises ==
    lookup # NoLookup =>
        LET registry == RegistryOf(lookup.module, lookup.registry)
        IN  IF lookup.name \in DOMAIN registry
            THEN lookup.error = None /\ lookup.func = registry[lookup.name]
            ELSE lookup.error = "FunctionNotFoundError" /\ lookup.func = None

\* C4: for every input image and every angle in [0,360) the image that
\* process_image returns has the width and height of the input image; with
\* angle 0 it is the sorted grid as placed, without rotation or crop
C4_OutputHasOriginalSize ==
    LET angle == DictGet(args, "angle", 0)
    IN  (pc = "done" /\ angle >= 0 /\ angle < 360) =>
            /\ output_image.w = image_file.w
            /\ output_image.h = image_file.h
            /\ angle = 0 =>
                  /\ prepared_image = original_image
                  /\ output_image =
                        ImageFromPixels(sorted_pixels, image_file.w, image_file.h)

C4_Witness ==
    /\ pc = "done"
    /\ DictGet(args, "angle", 0) = 45
    /\ prepared_image.w > original_image.w
    /\ prepared_image.h > original_image.h
    /\ sorted_pixels # pixels
    /\ output_image.w = original_image.w

\* C8: a pipeline invocation with malformed parameters (thresholds out of
\* order or out of [0,1], negative length, randomness out of [0,100], angle
\* out of [0,360)) aborts with an error and returns no image
C8_MalformedAborts ==
    (ParameterNames \subseteq DOMAIN config /\ validate_config(config).error # None) =>
        output_image = NoImage

\* C11: every boundary list an interval strategy returns for a row is a strictly
\* ascending sequence of integers, each of them in [1, width] (stated for
\* the grids of width >= 1, where that range is not empty)
C11_BoundariesStrictlyAscending ==
    (/\ pc = "intervals_ready"
     /\ strategy \in INTERVAL_FUNCTIONS
     /\ Len(pixels) > 0
     /\ Len(pixels[1]) > 0) =>
        \A r \in 1..Len(intervals) :
            LET b == intervals[r]
            IN  \A i \in 1..Len(b) :
                    /\ b[i] \in 1..Len(pixels[1])
                    /\ i < Len(b) => b[i] < b[i + 1]

\* the strategies that return boundary lists
IntervalStrategies == {"none", "random", "waves", "threshold", "edges", "file", "file-edges"}

\* C12: every interval-returning strategy returns one boundary list per grid
\* row, each list non-empty and ending with the grid width; `none` returns
\* exactly [width] for each row
C12_OneClosedListPerRow ==
    (pc = "intervals_ready" /\ strategy \in IntervalStrategies) =>
        /\ Len(intervals) = Len(pixels)
        /\ \A r \in 1..Len(intervals) :
               /\ Len(intervals[r]) > 0
               /\ intervals[r][Len(intervals[r])] = Len(pixels[r])
               /\ strategy = "none" => intervals[r] = <<Len(pixels[r])>>

C12_Witness ==
    /\ pc = "intervals_ready"
    /\ strategy = "edges"
    /\ Len(pixels) = MaskHeight
    /\ \E r \in 1..Len(intervals) : Len(intervals[r]) > 1

\* C13: threshold_intervals returns for each row the ascending columns whose
\* lightness (max(r, g, b) / 255) is below bottom_threshold or above
\* upper_threshold, followed by the width; [width] when no pixel qualifies
C13_ThresholdBoundaries ==
    (pc = "intervals_ready" /\ strategy = "threshold") =>
        \A r \in 1..Len(pixels) :
            LET w == Len(pixels[r])
                b == intervals[r]
                n == Len(b)
                v(c) == Max3(pixels[r][c + 1])
                qualifying == {c \in 0..(w - 1) :
                    \/ v(c) * args.bottom_threshold.d < args.bottom_threshold.n * 255
                    \/ v(c) * args.upper_threshold.d > args.upper_threshold.n * 255}
            IN  /\ n = Cardinality(qualifying) + 1
                /\ b[n] = w
                /\ {b[i] : i \in 1..(n - 1)} = qualifying
                /\ \A i \in 1..(n - 1), j \in 1..(n - 1) : i < j => b[i] < b[j]
                /\ qualifying = {} => b = <<w>>

C13_Witness ==
    /\ pc = "intervals_ready"
    /\ strategy = "threshold"
    /\ Len(pixels) > 0
    /\ Len(pixels[1]) = MaxWidth
    /\ Len(intervals[1]) = 2
    /\ intervals[1][1] = 1

\* C14: on the empty grid (no rows) every interval strategy and sort_image
\* complete without an error and return an empty result
C14_EmptyGridNoOp ==
    (pixels # NoGrid /\ Len(pixels) = 0 /\ strategy \in IntervalStrategies) =>
        /\ pc # "error"
        /\ error = None
        /\ pc \in {"intervals_ready", "sorted"} => intervals = <<>>
        /\ pc = "sorted" => sorted_pixels = <<>>

\* the bit of n at a position, the lowest being 0
Bit(n, position) == (n \div (2 ^ position)) % 2

\* C15: for every rule number r in [0,255] the table of generate_rule has
\* exactly 8 entries and maps (left, center, right) to true iff bit
\* 4*left + 2*center + right of r is 1
C15_RuleTableBits ==
    (pc = "rule_ready" /\ automaton.rule_number \in 0..255) =>
        /\ automaton.chosen_rule = automaton.rule_number
        /\ DOMAIN automaton.rule = BOOLEAN \X BOOLEAN \X BOOLEAN
        /\ Cardinality(DOMAIN automaton.rule) = 8
        /\ \A left \in BOOLEAN, center \in BOOLEAN, right \in BOOLEAN :
               LET index == 4 * (IF left THEN 1 ELSE 0) + 2 * (IF center THEN 1 ELSE 0)
                            + (IF right THEN 1 ELSE 0)
               IN  automaton.rule[<<left, center, right>>]
                       = (Bit(automaton.rule_number, index) = 1)

C15_Witness ==
    /\ pc = "rule_ready"
    /\ automaton.rule_number = 110
    /\ automaton.rule[<<FALSE, TRUE, TRUE>>]
    /\ ~automaton.rule[<<TRUE, FALSE, FALSE>>]

\* C16: the pattern is evolved at (floor(width/4), floor(height/4)) when the
\* requested width is <= 2500 and at (floor(width/8), floor(height/8))
\* otherwise: the width alone selects the divisor of both dimensions
C16_DivisorByWidth ==
    pc = "rule_ready" =>
        LET divisor == IF automaton.width <= 2500 THEN 4 ELSE 8
        IN  /\ automaton.scaled_width = automaton.width \div divisor
            /\ automaton.scaled_height = automaton.height \div divisor

\* C17: sort_interval is a stable ascending sort: the result is a permutation
\* of the input in non-decreasing key order, and the pixels of each key value
\* come in their original relative order (so equal-key lists, single pixels
\* and the empty list come back unchanged)
C17_SortIntervalStable ==
    (pc = "sorted" /\ strategy = "none" /\ Randomness(args) = 0) =>
        \A r \in 1..Len(pixels) :
            LET input  == pixels[r]
                output == sorted_pixels[r]
                SameKey(p, q) == /\ RatLeq(SortKey(sorting_name, p), SortKey(sorting_name, q))
                                 /\ RatLeq(SortKey(sorting_name, q), SortKey(sorting_name, p))
            IN  /\ IsPermutation(output, input)
                /\ IsAscending(output, sorting_name)
                /\ \A i \in 1..Len(input) :
                       LET WithKey(q) == SameKey(input[i], q)
                       IN  SelectSeq(output, WithKey) = SelectSeq(input, WithKey)
                /\ (\A i \in 1..Len(input) : SameKey(input[i], input[1])) => output = input

C17_Witness ==
    /\ pc = "sorted" /\ strategy = "none" /\ Randomness(args) = 0
    /\ \E r \in 1..Len(pixels) :
          /\ sorted_pixels[r] # pixels[r]
          /\ \E i \in 1..Len(pixels[r]), j \in 1..Len(pixels[r]) :
                /\ i < j
                /\ pixels[r][i] # pixels[r][j]
                /\ SortKey(sorting_name, pixels[r][i]) = SortKey(sorting_name, pixels[r][j])

\* the conditions in the order the validation tests them, each with the
\* message that names it
ValidationConditions(c) ==
    << <<0 <= c.bottom_threshold.n /\ c.bottom_threshold.n <= c.bottom_threshold.d,
         "bottom_threshold must be between 0.0 and 1.0">>,
       <<0 <= c.upper_threshold.n /\ c.upper_threshold.n <= c.upper_threshold.d,
         "upper_threshold must be between 0.0 and 1.0">>,
       <<c.bottom_threshold.n * c.upper_threshold.d < c.upper_threshold.n * c.bottom_threshold.d,
         "bottom_threshold must be less than upper_threshold">>,
       <<c.clength >= 0, "clength must be non-negative">>,
       <<0 <= c.randomness /\ c.randomness <= 100, "randomness must be between 0.0 and 100.0">>,
       <<0 <= c.angle /\ c.angle < 360, "angle must be between 0.0 and 360.0">> >>

C18_Outcome ==
    validation # NoValidation =>
        LET conditions == ValidationConditions(config)
            violated   == {i \in 1..Len(conditions) : ~conditions[i][1]}
        IN  IF violated = {}
            THEN validation.returned = "True" /\ validation.error = None
            ELSE /\ validation.error = "ValueError"
                 /\ validation.returned = None
                 /\ \E first \in violated :
                        /\ \A i \in violated : first <= i
                        /\ validation.message = conditions[first][2]

\* C18: validation returns True exactly when all six conditions hold;
\* otherwise it raises ValueError naming the first violated condition in the
\* order bottom range, upper range, bottom < upper, clength, randomness,
\* angle; the config is left unchanged either way
C18_ValidateConfig == [](C18_Outcome) /\ [][config' = config]_vars

C18_Witness ==
    /\ validation # NoValidation
    /\ validation.error = "ValueError"
    /\ validation.message = "bottom_threshold must be less than upper_threshold"
    /\ config.bottom_threshold = config.upper_threshold
    /\ config.clength < 0

\* C19: the image crop_to_reference returns has the width and the height of
\* the reference image, whatever the two sizes are
C19_CropMatchesReference ==
    (crop # NoCrop /\ pc = "cropped") =>
        /\ crop.returned.w = crop.reference_image.w
        /\ crop.returned.h = crop.reference_image.h

\* C20: after the sweep of the edges, file and file-edges strategies, in every
\* row of the black/white image no black pixel at a column index >= 2 has a
\* black pixel immediately to its left (the sweep covers all rows)
C20_SweepCoversAllRows ==
    (strategy \in {"edges", "file", "file-edges"} /\ scratch # NoGrid) =>
        \A r \in 1..Len(scratch) : \A c \in 1..Len(scratch[r]) :
            (c - 1 >= 2 /\ IsBlack(scratch[r][c])) => ~IsBlack(scratch[r][c - 1])

\* C21 as stated: there is a black/white image, the one being swept or any
\* other, on which a second sweep changes the result of the first
C21_SecondPassChanges ==
    \E bw \in SweepImages \cup {aux} :
        LET once == CleanUp(bw, Len(bw[1]))
        IN  CleanUp(once, Len(bw[1])) # once

\* C21 as amended: the sweep is idempotent, a second application leaves the
\* result of the first unchanged
C21_SweepIdempotent == [][pc = "swept" => scratch' = scratch]_vars

C21_Witness ==
    /\ pc = "swept_again"
    /\ Len(aux[1]) = 4
    /\ \A c \in 1..4 : IsBlack(aux[SweepStop + 2][c])
    /\ scratch[SweepStop + 2] = <<BLACK_PIXEL, BLACK_PIXEL, WHITE_PIXEL, WHITE_PIXEL>>

\* the stored fields of the sorter
StoredFields ==
    <<original_image, prepared_image, pixels, intervals, sorted_pixels, output_image>>

\* C22: generate_intervals is rejected unless prepare_image has succeeded,
\* sort_pixels unless generate_intervals has produced intervals or an
\* alternate-effect grid, reconstruct_image unless pixels have been sorted or
\* produced by an alternate effect; a rejected call leaves every stored field
\* unchanged, and an output image appears only after all three
C22_CallOrder ==
    [][/\ (call'.method = "generate_intervals" /\ ~history.prepared)
            => call'.outcome = "rejected"
       /\ (call'.method = "sort_pixels" /\ ~(history.generated \/ history.effect))
            => call'.outcome = "rejected"
       /\ (call'.method = "reconstruct_image" /\ ~(history.sorted \/ history.effect))
            => call'.outcome = "rejected"
       /\ call'.outcome = "rejected" => StoredFields' = StoredFields
       /\ output_image' # output_image =>
            /\ history'.prepared
            /\ history'.generated \/ history'.effect
            /\ history'.sorted \/ history'.effect]_vars

C22_Witness ==
    /\ call = [method |-> "reconstruct_image", outcome |-> "rejected"]
    /\ history.prepared /\ history.generated /\ ~history.sorted
    /\ intervals # NoIntervals
    /\ output_image = NoImage

\* the pixels of a row between two boundaries
Segment(rowpx, lo, hi) == SubSeq(rowpx, lo + 1, hi)

\* C23: with snap, shuffle-total or shuffle-axis, generate_intervals stores
\* the returned grid as the sorted pixels with no intervals, and the following
\* sort_pixels returns that grid unchanged (no key, no draw); with any other
\* strategy sort_pixels runs the row sorter on the computed intervals: every
\* interval comes out in key order or as it was
C23_EffectGridAsIs ==
    [][/\ (strategy \in AlternateEffects /\ call'.method = "generate_intervals"
           /\ call'.outcome = "returned")
            => /\ intervals' = NoIntervals
               /\ sorted_pixels' # NoGrid
               /\ pixels' = pixels
       /\ (strategy \in AlternateEffects /\ call'.method = "sort_pixels"
           /\ history.effect)
            => /\ call'.outcome = "returned"
               /\ sorted_pixels' = sorted_pixels
               /\ intervals' = NoIntervals
       /\ (strategy \notin AlternateEffects /\ call'.method = "sort_pixels"
           /\ call'.outcome = "returned" /\ history.intervals = original_image)
            => /\ Len(sorted_pixels') = Len(pixels)
               /\ \A r \in 1..Len(pixels) : \A i \in 1..Len(intervals[r]) :
                      LET lo     == IF i = 1 THEN 0 ELSE intervals[r][i - 1]
                          hi     == intervals[r][i]
                          input  == Segment(pixels[r], lo, hi)
                          output == Segment(sorted_pixels'[r], lo, hi)
                      IN  /\ IsPermutation(output, input)
                          /\ output = input \/ IsAscending(output, sorting_name)]_vars

\* a shuffled grid that differs from the prepared one has gone through
\* sort_pixels
C23_Witness ==
    /\ strategy = "shuffle-total"
    /\ call = [method |-> "sort_pixels", outcome |-> "returned"]
    /\ sorted_pixels # NoGrid
    /\ sorted_pixels # pixels
    /\ Len(sorted_pixels) = Len(pixels)
    /\ intervals = NoIntervals

\* C24: in the pattern of generate_ca every interior cell (row y >= 1, column
\* 1 <= x <= scaled_width - 2) is the rule-table value of the three cells at
\* columns x-1, x, x+1 of row y-1; row 0 and the edge cells are free
C24_InteriorFromRule ==
    pc = "pattern_ready" =>
        \A gen \in 2..Len(automaton.ca) : \A col \in 2..(automaton.scaled_width - 1) :
            LET above == automaton.ca[gen - 1]
                index == 4 * (IF above[col - 1] THEN 1 ELSE 0)
                         + 2 * (IF above[col] THEN 1 ELSE 0)
                         + (IF above[col + 1] THEN 1 ELSE 0)
            IN  automaton.ca[gen][col] = (Bit(automaton.chosen_rule, index) = 1)

\* rule 110 on the row (true, true, false): the interior cell of the next row
\* is true, between an edge that is false and one that is true
C24_Witness ==
    /\ pc = "pattern_ready"
    /\ automaton.chosen_rule = 110
    /\ automaton.scaled_width = 3
    /\ Len(automaton.ca) >= 2
    /\ automaton.ca[1] = <<TRUE, TRUE, FALSE>>
    /\ automaton.ca[2] = <<FALSE, TRUE, TRUE>>

\* C28: the pattern of generate_ca has exactly scaled_height rows of exactly
\* scaled_width cells, for all scaled sizes including 0, 1 and 2
C28_PatternRectangular ==
    pc = "pattern_ready" =>
        /\ Len(automaton.ca) = automaton.scaled_height
        /\ \A gen \in 1..Len(automaton.ca) :
               Len(automaton.ca[gen]) = automaton.scaled_width

\* C25: when sort_image has run with the intervals of an interval-returning
\* strategy, every output row is a permutation of the input row of the same
\* index: no pixel is lost, duplicated, replaced or moved to another row
C25_RowsArePermutations ==
    pc = "sorted" =>
        /\ Len(sorted_pixels) = Len(pixels)
        /\ \A r \in 1..Len(pixels) : IsPermutation(sorted_pixels[r], pixels[r])

\* three rows cut by an edge map, at least one of them reordered
C25_Witness ==
    /\ pc = "sorted"
    /\ strategy = "edges"
    /\ Len(pixels) = 3
    /\ \E r \in 1..3 : Len(intervals[r]) > 1 /\ sorted_pixels[r] # pixels[r]

\* C26: whenever reconstruct_image succeeds, the pixels it renders were
\* computed from the image of the most recent successful prepare_image, and
\* whenever sort_pixels succeeds the intervals it used were generated from
\* that image: nothing stale from an earlier image is used
C26_NothingStale ==
    /\ (call = [method |-> "reconstruct_image", outcome |-> "returned"])
            => history.sorted_pixels = original_image
    /\ (call = [method |-> "sort_pixels", outcome |-> "returned"]
         /\ intervals # NoIntervals)
            => history.intervals = original_image


\* C27: whenever reconstruct_image (alone or as the last step of
\* process_image) returns, the grid it was handed has as many rows as the
\* prepared image is high, and every row has the prepared image's width
C27_GridMatchesPrepared ==
    (call \in {[method |-> "reconstruct_image", outcome |-> "returned"],
               [method |-> "process_image", outcome |-> "returned"]})
        => /\ Len(sorted_pixels) = prepared_image.h
           /\ \A r \in 1..Len(sorted_pixels) :
                  Len(sorted_pixels[r]) = prepared_image.w


\* C29: when the configuration holds a rule number in 0..255, the file and
\* file-edges strategies go on with exactly that rule, whichever entry point
\* built the sorter; a recommended rule is drawn only without one or with
\* one out of range
C29_GivenRuleUsed ==
    (pc = "rule_ready" /\ strategy \in {"file", "file-edges"})
        => IF "ca_rule_number" \in DOMAIN config /\ config.ca_rule_number \in 0..255
           THEN automaton.chosen_rule = config.ca_rule_number
           ELSE \E i \in 1..Len(recommended_rules) :
                    automaton.chosen_rule = recommended_rules[i]


\* the presets registered so far whose lower-cased name is that of name
SameNamed(registered, name) ==
    {i \in 1..Len(registered) : str_lower(registered[i].name) = str_lower(name)}

\* C30: after any register_preset calls, the list of list_presets holds the
\* lower-cased name of every registered preset exactly once, and get_preset
\* of any case variant of a registered name returns the preset registered
\* last under that lower-cased name
C30_RegisteredListedAndFound ==
    /\ pc = "listed" =>
           \A i \in 1..Len(presets.registered) :
               Cardinality({j \in 1..Len(presets.listed) :
                   presets.listed[j] = str_lower(presets.registered[i].name)}) = 1
    /\ (pc = "got" /\ SameNamed(presets.registered, presets.got.name) # {}) =>
           LET last == CHOOSE i \in SameNamed(presets.registered, presets.got.name) :
                           \A j \in SameNamed(presets.registered, presets.got.name) : j <= i
           IN  presets.got.preset = presets.registered[last]

====
